---- MODULE Spec2Model ----
(***************************************************************************)
(* NYC 311 service-request loader and query engine.                        *)
(*                                                                         *)
(* Three programs of the repository are modelled side by side:             *)
(*   - DataStore + CsvReader   (pointer-returning queries, load() clears)  *)
(*   - NYC311Analyzer          (copy-returning queries, loadData appends)  *)
(*   - the free functions over the global g_records                        *)
(* Text is a sequence of one-character strings; a file is the sequence of  *)
(* lines std::getline hands out (a CR LF file leaves "\r" at the end of    *)
(* each line).                                                             *)
(***************************************************************************)
EXTENDS Integers, Sequences, FiniteSets, TLC

VARIABLES
    variant,     \* which of the three programs runs: "DataStore",
                 \* "NYC311Analyzer" or "global" (the free functions over
                 \* g_records)
    records_,    \* DataStore::records_ : the vector's elements, in order
    epoch,       \* how many times records_'s elements were destroyed: the
                 \* element at index i is the object <<epoch, i>>
    skipped_,    \* CsvReader::skipped_
    total_,      \* CsvReader::total_
    loadRet,     \* value returned by the last DataStore::load (-1: none yet)
    result,      \* the QueryResult of the last DataStore query and the
                 \* number of load calls made when it was returned
    records,     \* NYC311Analyzer::records
    lineCount,   \* NYC311Analyzer::loadData's lineCount when it returned
    skipCount,   \* NYC311Analyzer::loadData's skipCount when it returned
    results,     \* vector returned by the last copying query
    g_records,   \* the global dataset of the free-function program
    rowlog,      \* the rows the last load passed to fromFields, in order:
                 \* field count, outcome, whether the call changed the
                 \* object, and the position the object was pushed at (0:
                 \* not pushed)
    last,        \* the operation that ran last, with its arguments
    loads,       \* number of load calls made so far
    call         \* a function of the library called on its own (a line
                 \* decoder, DateTime::parse, the DateTime operators): its
                 \* name, its arguments, its local variables while it runs
                 \* and what it returned; fn = "none" in the three programs

\* the variables of the three programs
storeVars == <<variant, records_, epoch, skipped_, total_, loadRet, result,
               records, lineCount, skipCount, results, g_records, rowlog,
               last, loads>>

vars == <<variant, records_, epoch, skipped_, total_, loadRet, result,
          records, lineCount, skipCount, results, g_records, rowlog, last,
          loads, call>>

----------------------------------------------------------------------------
(* Bounds of the model                                                     *)

\* data lines per file (the header line comes on top)
MaxRows == 2
\* load calls per behaviour
MaxLoads == 2

----------------------------------------------------------------------------
(* Characters                                                              *)

Quote == "\""
Comma == ","
CR    == "\r"

DigitChars == <<"0", "1", "2", "3", "4", "5", "6", "7", "8", "9">>
UpperChars == <<"A","B","C","D","E","F","G","H","I","J","K","L","M",
                "N","O","P","Q","R","S","T","U","V","W","X","Y","Z">>
LowerChars == <<"a","b","c","d","e","f","g","h","i","j","k","l","m",
                "n","o","p","q","r","s","t","u","v","w","x","y","z">>

isdigit(c) == \E d \in 1..10 : DigitChars[d] = c
digitval(c) == (CHOOSE d \in 1..10 : DigitChars[d] = c) - 1
isspace(c) == c \in {" ", "\t", "\n", "\f", "\r"}

\* std::tolower in the "C" locale
tolower(c) ==
    IF \E k \in 1..26 : UpperChars[k] = c
    THEN LowerChars[CHOOSE k \in 1..26 : UpperChars[k] = c]
    ELSE c

\* std::toupper in the "C" locale
toupper(c) ==
    IF \E k \in 1..26 : LowerChars[k] = c
    THEN UpperChars[CHOOSE k \in 1..26 : LowerChars[k] = c]
    ELSE c

----------------------------------------------------------------------------
(* strtoul / strtol / sscanf pieces (C library, as the code uses them)     *)

RECURSIVE SkipWs(_, _)
\* first position >= i of s that holds no white space (Len(s)+1 if none)
SkipWs(s, i) ==
    IF i <= Len(s) /\ isspace(s[i]) THEN SkipWs(s, i + 1) ELSE i

RECURSIVE DigitsEnd(_, _)
\* first position >= i of s that holds no decimal digit
DigitsEnd(s, i) ==
    IF i <= Len(s) /\ isdigit(s[i]) THEN DigitsEnd(s, i + 1) ELSE i

RECURSIVE DigitsValue(_, _, _, _)
\* value of the digits s[i..e-1], continuing from acc
DigitsValue(s, i, e, acc) ==
    IF i >= e THEN acc ELSE DigitsValue(s, i + 1, e, acc * 10 + digitval(s[i]))

\* The subject sequence of strtol/strtoul in base 10 starting at i:
\* white space, an optional sign, one or more digits.
\* ok = FALSE: no conversion (end == start); val is the signed mathematical
\* value; next is the position after the last digit.
ScanInt(s, i) ==
    LET j == SkipWs(s, i)
        neg == j <= Len(s) /\ s[j] = "-"
        k == IF j <= Len(s) /\ s[j] \in {"+", "-"} THEN j + 1 ELSE j
        e == DigitsEnd(s, k)
        v == DigitsValue(s, k, e, 0)
    IN  IF e = k
        THEN [ok |-> FALSE, val |-> 0, next |-> i]
        ELSE [ok |-> TRUE, val |-> IF neg THEN 0 - v ELSE v, next |-> e]

\* static_cast to an unsigned type of w bits
CastU(v, w) == v % (2 ^ w)
\* static_cast to a signed two's complement type of w bits
CastS(v, w) ==
    LET u == v % (2 ^ w) IN IF u >= 2 ^ (w - 1) THEN u - 2 ^ w ELSE u

----------------------------------------------------------------------------
(* DateTime                                                                *)

\* a default-constructed DateTime: every field 0, valid = false
DateTimeDefault ==
    [year |-> 0, month |-> 0, day |-> 0,
     hour |-> 0, minute |-> 0, second |-> 0, valid |-> FALSE]

\* to24h as it would be without the two cases of the hour 12
to24h_plain(h, isPM) == IF isPM THEN CastU(h + 12, 8) ELSE h

\* convert 12-h hour + AM/PM to 24-h; the result is a uint8_t
to24h(h, isPM) ==
    IF ~isPM
    THEN (IF h = 12 THEN 0 ELSE h)
    ELSE (IF h = 12 THEN 12 ELSE CastU(h + 12, 8))

\* the directives of the format "%u/%u/%u %u:%u:%u %2s"
DateTimeFormat ==
    <<"%u", "/", "%u", "/", "%u", " ", "%u", ":", "%u", ":", "%u", " ", "%2s">>

RECURSIVE sscanf(_, _, _, _)
\* sscanf on the text s from position pos and directive k on, vals being the
\* items assigned so far: the items assigned when the scan ends.  A
\* conversion and a blank of the format skip white space, any other
\* character of the format must match the next character, and the scan ends
\* at the first directive that fails.  Of %2s only the first character is
\* kept.
sscanf(s, pos, k, vals) ==
    IF k > Len(DateTimeFormat) THEN vals
    ELSE IF DateTimeFormat[k] = "%u"
    THEN LET r == ScanInt(s, pos)
         IN  IF r.ok THEN sscanf(s, r.next, k + 1, Append(vals, r.val))
             ELSE vals
    ELSE IF DateTimeFormat[k] = "%2s"
    THEN LET j == SkipWs(s, pos)
         IN  IF j <= Len(s) THEN sscanf(s, j + 1, k + 1, Append(vals, s[j]))
             ELSE vals
    ELSE IF DateTimeFormat[k] = " "
    THEN sscanf(s, SkipWs(s, pos), k + 1, vals)
    ELSE IF pos <= Len(s) /\ s[pos] = DateTimeFormat[k]
    THEN sscanf(s, pos + 1, k + 1, vals)
    ELSE vals

\* the fields DateTime::parse sets from the items vals that sscanf
\* assigned, in the order mm, dd, yyyy, hh, mi, ss, ampm[0]
DateTimeOfItems(vals) ==
    IF Len(vals) < 7 THEN DateTimeDefault
    ELSE [month  |-> CastU(vals[1], 8),
          day    |-> CastU(vals[2], 8),
          year   |-> CastU(vals[3], 16),
          minute |-> CastU(vals[5], 8),
          second |-> CastU(vals[6], 8),
          hour   |-> to24h(CastU(vals[4], 8), vals[7] \in {"P", "p"}),
          valid  |-> TRUE]

\* the items vals followed by the values the variables were initialised
\* with, for the items sscanf did not assign
ItemsOrInitial(vals) ==
    [k \in 1..7 |-> IF k <= Len(vals) THEN vals[k]
                    ELSE IF k = 7 THEN "" ELSE 0]

\* parse as it would be if the number of items sscanf assigned were not
\* tested
DateTime_parse_unchecked(s) ==
    IF Len(s) < 11 THEN DateTimeDefault
    ELSE DateTimeOfItems(ItemsOrInitial(sscanf(s, 1, 1, <<>>)))

\* DateTime::parse(const char* s, std::size_t len): too short, or fewer than
\* 7 items assigned by sscanf, gives the default (invalid) value
DateTime_parse(s) ==
    IF Len(s) < 11 THEN DateTimeDefault
    ELSE DateTimeOfItems(sscanf(s, 1, 1, <<>>))

\* toKey as it would be with the shifts of month and day exchanged
toKey_dayAboveMonth(d) ==
    <<d.year \div 256,
      (d.year % 256) * 256 + d.day,
      d.month * 256 + d.hour,
      d.minute * 256 + d.second>>

\* DateTime::toKey: year<<40 | month<<32 | day<<24 | hour<<16 | minute<<8 |
\* second, a uint64_t, written as its four 16-bit limbs, most significant
\* first (bits 63..48, 47..32, 31..16, 15..0).
toKey(d) ==
    <<d.year \div 256,
      (d.year % 256) * 256 + d.month,
      d.day * 256 + d.hour,
      d.minute * 256 + d.second>>

\* a < b on uint64_t values given as limbs
U64Less(a, b) ==
    \E k \in 1..4 : a[k] < b[k] /\ \A m \in 1..(k - 1) : a[m] = b[m]

\* operator== as it would be if an invalid value were equal to nothing
DateTime_eq_invalidUnequal(a, b) ==
    IF a.valid # b.valid THEN FALSE ELSE a.valid /\ toKey(a) = toKey(b)

\* DateTime::operator== (packed key)
DateTime_eq(a, b) ==
    IF a.valid # b.valid THEN FALSE ELSE toKey(a) = toKey(b)

\* DateTime::operator< (packed key): an invalid value sorts before all valid
DateTime_lt(a, b) ==
    IF ~a.valid /\ ~b.valid THEN FALSE
    ELSE IF ~a.valid THEN TRUE
    ELSE IF ~b.valid THEN FALSE
    ELSE U64Less(toKey(a), toKey(b))

\* DateTime::operator<= : !(o < *this)
DateTime_le(a, b) == ~DateTime_lt(b, a)
\* DateTime::operator>  : o < *this
DateTime_gt(a, b) == DateTime_lt(b, a)
\* operator>= as it would be if it held of valid values only
DateTime_ge_validOnly(a, b) == a.valid /\ b.valid /\ ~DateTime_lt(a, b)

\* DateTime::operator>= : !(*this < o)
DateTime_ge(a, b) == ~DateTime_lt(a, b)

\* DateTime::operator== (field by field)
DateTimeF_eq(a, b) ==
    IF a.valid # b.valid THEN FALSE
    ELSE a.year = b.year /\ a.month = b.month /\ a.day = b.day
         /\ a.hour = b.hour /\ a.minute = b.minute /\ a.second = b.second

\* operator< field by field as it would be without the comparison of the
\* hours
DateTimeF_lt_skipsHour(a, b) ==
    IF ~a.valid /\ ~b.valid THEN FALSE
    ELSE IF ~a.valid THEN TRUE
    ELSE IF ~b.valid THEN FALSE
    ELSE IF a.year # b.year THEN a.year < b.year
    ELSE IF a.month # b.month THEN a.month < b.month
    ELSE IF a.day # b.day THEN a.day < b.day
    ELSE IF a.minute # b.minute THEN a.minute < b.minute
    ELSE a.second < b.second

\* DateTime::operator< (field by field)
DateTimeF_lt(a, b) ==
    IF ~a.valid /\ ~b.valid THEN FALSE
    ELSE IF ~a.valid THEN TRUE
    ELSE IF ~b.valid THEN FALSE
    ELSE IF a.year # b.year THEN a.year < b.year
    ELSE IF a.month # b.month THEN a.month < b.month
    ELSE IF a.day # b.day THEN a.day < b.day
    ELSE IF a.hour # b.hour THEN a.hour < b.hour
    ELSE IF a.minute # b.minute THEN a.minute < b.minute
    ELSE a.second < b.second

\* DateTime::operator<= (field by field): !(o < *this)
DateTimeF_le(a, b) == ~DateTimeF_lt(b, a)
\* DateTime::operator>  (field by field): o < *this
DateTimeF_gt(a, b) == DateTimeF_lt(b, a)
\* DateTime::operator>= (field by field): !(*this < o)
DateTimeF_ge(a, b) == ~DateTimeF_lt(a, b)

RECURSIVE Decimal(_)
\* the decimal digits of the unsigned n, without leading zeros ("0" for 0)
Decimal(n) ==
    IF n < 10 THEN <<DigitChars[n + 1]>>
    ELSE Append(Decimal(n \div 10), DigitChars[(n % 10) + 1])

RECURSIVE ZeroPadded(_, _)
\* the conversion %0wu of printf: the digits s, zeros before them up to the
\* width w, never cut
ZeroPadded(s, w) == IF Len(s) >= w THEN s ELSE ZeroPadded(<<"0">> \o s, w)

\* the characters "%04u-%02u-%02u %02u:%02u:%02u" writes for the six fields
FormatDateTime(d) ==
    ZeroPadded(Decimal(d.year), 4) \o <<"-">>
    \o ZeroPadded(Decimal(d.month), 2) \o <<"-">>
    \o ZeroPadded(Decimal(d.day), 2) \o <<" ">>
    \o ZeroPadded(Decimal(d.hour), 2) \o <<":">>
    \o ZeroPadded(Decimal(d.minute), 2) \o <<":">>
    \o ZeroPadded(Decimal(d.second), 2)

\* std::snprintf(buf, size, ...): of the characters written, the first
\* size - 1 are kept
snprintf(size, chars) ==
    IF Len(chars) <= size - 1 THEN chars ELSE SubSeq(chars, 1, size - 1)

\* char buf[20] of DateTime::toString
ToStringBuf == 20

\* toString as it would be with %u in the place of %02u for the hour
DateTime_toString_hourUnpadded(d) ==
    IF ~d.valid THEN <<"(", "i", "n", "v", "a", "l", "i", "d", ")">>
    ELSE snprintf(ToStringBuf,
             ZeroPadded(Decimal(d.year), 4) \o <<"-">>
             \o ZeroPadded(Decimal(d.month), 2) \o <<"-">>
             \o ZeroPadded(Decimal(d.day), 2) \o <<" ">>
             \o Decimal(d.hour) \o <<":">>
             \o ZeroPadded(Decimal(d.minute), 2) \o <<":">>
             \o ZeroPadded(Decimal(d.second), 2))

\* DateTime::toString: "(invalid)" or "YYYY-MM-DD HH:MM:SS"
DateTime_toString(d) ==
    IF ~d.valid THEN <<"(", "i", "n", "v", "a", "l", "i", "d", ")">>
    ELSE snprintf(ToStringBuf, FormatDateTime(d))

----------------------------------------------------------------------------
(* Numeric columns                                                         *)

\* Integers wider than 31 bits are written as their 16-bit limbs, most
\* significant first: four limbs for the 64 bits of unsigned long long,
\* unsigned long and long (LP64), two limbs for a uint32_t.
Limb == 65536

U64Zero == <<0, 0, 0, 0>>
\* ULLONG_MAX, ULONG_MAX
U64Max == <<65535, 65535, 65535, 65535>>
\* LONG_MAX and LONG_MIN as two's complement bit patterns
LongMax == <<32767, 65535, 65535, 65535>>
LongMin == <<32768, 0, 0, 0>>
U32Zero == <<0, 0>>

\* a * 10 + d on 64 bits; over tells that the result did not fit
TimesTenPlus(a, d) ==
    LET x4 == a[4] * 10 + d
        x3 == a[3] * 10 + (a[4] * 10 + d) \div Limb
        x2 == a[2] * 10 + x3 \div Limb
        x1 == a[1] * 10 + x2 \div Limb
    IN  [val |-> <<x1 % Limb, x2 % Limb, x3 % Limb, x4 % Limb>>,
         over |-> x1 >= Limb]

RECURSIVE Magnitude(_, _, _, _)
\* the number the digits s[i..e-1] spell, continuing from acc; over once it
\* has passed 2^64 - 1
Magnitude(s, i, e, acc) ==
    IF i >= e \/ acc.over THEN acc
    ELSE Magnitude(s, i + 1, e, TimesTenPlus(acc.val, digitval(s[i])))

\* 0 - a on 64 bits (two's complement)
Neg64(a) ==
    IF a = U64Zero THEN U64Zero
    ELSE LET k == CHOOSE j \in 1..4 : a[j] # 0 /\ \A m \in (j + 1)..4 : a[m] = 0
         IN  [j \in 1..4 |-> IF j < k THEN Limb - 1 - a[j]
                             ELSE IF j = k THEN Limb - a[j]
                             ELSE 0]

\* a < b on unsigned values of as many limbs
UintLess(a, b) ==
    \E k \in 1..Len(a) : a[k] < b[k] /\ \A m \in 1..(k - 1) : a[m] = b[m]

\* the subject sequence of strtol / strtoul / strtoull in base 10 at the
\* start of s: white space, an optional sign, one or more digits.  from = to
\* when there is no digit (end == s.c_str()).
Subject(s) ==
    LET j == SkipWs(s, 1)
        k == IF j <= Len(s) /\ s[j] \in {"+", "-"} THEN j + 1 ELSE j
    IN  [neg |-> j <= Len(s) /\ s[j] = "-", from |-> k,
         to |-> DigitsEnd(s, k)]

\* std::strtoull(s, &end, 10): ULLONG_MAX when the digits spell more than
\* that, the negation on 64 bits after a minus sign
strtoull(s) ==
    LET sub == Subject(s)
        m == Magnitude(s, sub.from, sub.to, [val |-> U64Zero, over |-> FALSE])
    IN  IF sub.to = sub.from THEN [ok |-> FALSE, val |-> U64Zero]
        ELSE [ok |-> TRUE,
              val |-> IF m.over THEN U64Max
                      ELSE IF sub.neg THEN Neg64(m.val) ELSE m.val]

\* std::strtoul(s, &end, 10): unsigned long has the 64 bits of unsigned
\* long long
strtoul(s) == strtoull(s)

\* std::strtol(s, &end, 10): LONG_MAX or LONG_MIN when the number is out of
\* the range of long
strtol(s) ==
    LET sub == Subject(s)
        m == Magnitude(s, sub.from, sub.to, [val |-> U64Zero, over |-> FALSE])
    IN  IF sub.to = sub.from THEN [ok |-> FALSE, val |-> U64Zero]
        ELSE [ok |-> TRUE,
              val |-> IF sub.neg
                      THEN (IF m.over \/ UintLess(LongMin, m.val) THEN LongMin
                            ELSE Neg64(m.val))
                      ELSE (IF m.over \/ m.val[1] >= 32768 THEN LongMax
                            ELSE m.val)]

\* static_cast<uint32_t> of a 64-bit value: the low 32 bits
ToU32(v) == <<v[3], v[4]>>
\* static_cast<int32_t> of a 64-bit value: the low 32 bits, two's complement
ToI32(v) ==
    IF v[3] >= 32768 THEN (v[3] - Limb) * Limb + v[4] ELSE v[3] * Limb + v[4]
\* static_cast<int16_t> of a 64-bit value: the low 16 bits, two's complement
ToI16(v) == IF v[4] >= 32768 THEN v[4] - Limb ELSE v[4]

\* parseZip: uint32_t, 0 on empty or when strtoul consumed nothing
parseZip(s) ==
    IF s = <<>> THEN U32Zero
    ELSE IF ~strtoul(s).ok THEN U32Zero ELSE ToU32(strtoul(s).val)

\* parseInt16 as it would be with 0 for the text without digits
parseInt16_zeroDefault(s) ==
    IF s = <<>> THEN -1
    ELSE IF ~strtol(s).ok THEN 0 ELSE ToI16(strtol(s).val)

\* parseInt16: int16_t, -1 on empty or when strtol consumed nothing
parseInt16(s) ==
    IF s = <<>> THEN -1
    ELSE IF ~strtol(s).ok THEN -1 ELSE ToI16(strtol(s).val)

\* parseU64: uint64_t, 0 on empty or when strtoull consumed nothing
parseU64(s) ==
    IF s = <<>> THEN U64Zero
    ELSE IF ~strtoull(s).ok THEN U64Zero ELSE strtoull(s).val

\* parseInt32: int32_t, 0 on empty or when strtol consumed nothing
parseInt32(s) ==
    IF s = <<>> THEN 0
    ELSE IF ~strtol(s).ok THEN 0 ELSE ToI32(strtol(s).val)

\* parseDouble: strtod, 0.0 on empty or when nothing was consumed.  A double
\* is written as its number of thousandths; the subject sequence is white
\* space, an optional sign, digits with an optional '.' (one digit at least).
parseDouble(s) ==
    IF s = <<>> THEN 0
    ELSE LET j == SkipWs(s, 1)
             neg == j <= Len(s) /\ s[j] = "-"
             k == IF j <= Len(s) /\ s[j] \in {"+", "-"} THEN j + 1 ELSE j
             e == DigitsEnd(s, k)
             dot == e <= Len(s) /\ s[e] = "."
             fe == IF dot THEN DigitsEnd(s, e + 1) ELSE e
             nfrac == IF dot THEN fe - (e + 1) ELSE 0
             ip == DigitsValue(s, k, e, 0)
             fp == IF nfrac = 0 THEN 0
                   ELSE IF nfrac = 1 THEN 100 * DigitsValue(s, e + 1, fe, 0)
                   ELSE IF nfrac = 2 THEN 10 * DigitsValue(s, e + 1, fe, 0)
                   ELSE DigitsValue(s, e + 1, e + 4, 0)
             v == ip * 1000 + fp
         IN  IF (e - k) + nfrac = 0 THEN 0
             ELSE IF neg THEN 0 - v ELSE v

----------------------------------------------------------------------------
(* Line decoders                                                           *)

\* the body of the loop of parseLine as it would be if a comma ended the
\* field in quoted state too
parseLineStep_splitInQuotes(line, st, p) ==
    IF p # st.i THEN st
    ELSE IF line[p] = Comma
    THEN [st EXCEPT !.fields = Append(@, st.current),
                    !.current = <<>>, !.i = p + 1]
    ELSE IF line[p] = Quote
    THEN IF st.inQuotes /\ p + 1 <= Len(line) /\ line[p + 1] = Quote
         THEN [st EXCEPT !.current = Append(@, Quote), !.i = p + 2]
         ELSE [st EXCEPT !.inQuotes = ~st.inQuotes, !.i = p + 1]
    ELSE IF line[p] = CR /\ ~st.inQuotes
    THEN [st EXCEPT !.i = p + 1]
    ELSE [st EXCEPT !.current = Append(@, line[p]), !.i = p + 1]

\* One pass of the body of the for loop of CsvReader::parseLine, taken with
\* the loop variable at position p.  st.i is the position the loop looks at
\* next: the pass for a position the loop skipped (the second quote of a
\* doubled one, ++i) changes nothing.
parseLineStep(line, st, p) ==
    IF p # st.i THEN st
    ELSE LET c == line[p] IN
         IF st.inQuotes
         THEN IF c = Quote
              THEN IF p + 1 <= Len(line) /\ line[p + 1] = Quote
                   THEN [st EXCEPT !.current = Append(@, Quote), !.i = p + 2]
                   ELSE [st EXCEPT !.inQuotes = FALSE, !.i = p + 1]
              ELSE [st EXCEPT !.current = Append(@, c), !.i = p + 1]
         ELSE IF c = Quote
              THEN [st EXCEPT !.inQuotes = TRUE, !.i = p + 1]
              ELSE IF c = Comma
              THEN [st EXCEPT !.fields = Append(@, st.current),
                              !.current = <<>>, !.i = p + 1]
              ELSE IF c = CR
              THEN [st EXCEPT !.i = p + 1]
              ELSE [st EXCEPT !.current = Append(@, c), !.i = p + 1]

RECURSIVE parseLineRun(_, _, _, _)
\* the passes of the for loop for the positions lo..hi, in order (the range
\* is halved so that the evaluation stays shallow; once the loop variable is
\* past hi the remaining passes change nothing)
parseLineRun(line, st, lo, hi) ==
    IF lo > hi THEN st
    ELSE IF lo = hi THEN parseLineStep(line, st, lo)
    ELSE LET mid == (lo + hi) \div 2
             half == parseLineRun(line, st, lo, mid)
         IN  IF half.i > hi THEN half
             ELSE parseLineRun(line, half, mid + 1, hi)

\* the decoder's state when the for loop of parseLine ends
parseLineEnd(line) ==
    parseLineRun(line, [i |-> 1, inQuotes |-> FALSE, current |-> <<>>,
                        fields |-> <<>>], 1, Len(line))

\* CsvReader::parseLine: the fields of one line (the last field is pushed
\* when the loop ends)
parseLine(line) ==
    LET st == parseLineEnd(line) IN Append(st.fields, st.current)

\* NYC311Analyzer::cleanString: strips one leading and one trailing quote
cleanString(str) ==
    LET a == IF str # <<>> /\ Head(str) = Quote THEN Tail(str) ELSE str
    IN  IF a # <<>> /\ a[Len(a)] = Quote THEN SubSeq(a, 1, Len(a) - 1) ELSE a

\* the body of the loop of parseCSVLine as it would be if a doubled quote
\* were consumed without a quote being appended
parseCSVLineStep_dropDoubled(line, st, p) ==
    IF p # st.i THEN st
    ELSE IF st.inQuotes
    THEN IF line[p] = Quote
         THEN IF p + 1 <= Len(line) /\ line[p + 1] = Quote
              THEN [st EXCEPT !.i = p + 2]
              ELSE [st EXCEPT !.inQuotes = FALSE, !.i = p + 1]
         ELSE [st EXCEPT !.current = Append(@, line[p]), !.i = p + 1]
    ELSE IF line[p] = Quote
    THEN [st EXCEPT !.inQuotes = TRUE, !.i = p + 1]
    ELSE IF line[p] = Comma
    THEN [st EXCEPT !.fields = Append(@, cleanString(st.current)),
                    !.current = <<>>, !.i = p + 1]
    ELSE IF line[p] = CR
    THEN [st EXCEPT !.i = p + 1]
    ELSE [st EXCEPT !.current = Append(@, line[p]), !.i = p + 1]

\* one pass of the body of the for loop of NYC311Analyzer::parseCSVLine
parseCSVLineStep(line, st, p) ==
    IF p # st.i THEN st
    ELSE LET c == line[p] IN
         IF st.inQuotes
         THEN IF c = Quote
              THEN IF p + 1 <= Len(line) /\ line[p + 1] = Quote
                   THEN [st EXCEPT !.current = Append(@, Quote), !.i = p + 2]
                   ELSE [st EXCEPT !.inQuotes = FALSE, !.i = p + 1]
              ELSE [st EXCEPT !.current = Append(@, c), !.i = p + 1]
         ELSE IF c = Quote
              THEN [st EXCEPT !.inQuotes = TRUE, !.i = p + 1]
              ELSE IF c = Comma
              THEN [st EXCEPT !.fields = Append(@, cleanString(st.current)),
                              !.current = <<>>, !.i = p + 1]
              ELSE IF c = CR
              THEN [st EXCEPT !.i = p + 1]
              ELSE [st EXCEPT !.current = Append(@, c), !.i = p + 1]

RECURSIVE parseCSVLineRun(_, _, _, _)
\* the passes of the for loop for the positions lo..hi, in order
parseCSVLineRun(line, st, lo, hi) ==
    IF lo > hi THEN st
    ELSE IF lo = hi THEN parseCSVLineStep(line, st, lo)
    ELSE LET mid == (lo + hi) \div 2
             half == parseCSVLineRun(line, st, lo, mid)
         IN  IF half.i > hi THEN half
             ELSE parseCSVLineRun(line, half, mid + 1, hi)

\* NYC311Analyzer::parseCSVLine
parseCSVLine(line) ==
    LET st == parseCSVLineRun(line, [i |-> 1, inQuotes |-> FALSE,
                                     current |-> <<>>, fields |-> <<>>],
                              1, Len(line))
    IN  Append(st.fields, cleanString(st.current))

\* cleanString of the free-function program
g_cleanString(str) ==
    LET a == IF str # <<>> /\ Head(str) = Quote THEN Tail(str) ELSE str
    IN  IF a # <<>> /\ a[Len(a)] = Quote THEN SubSeq(a, 1, Len(a) - 1) ELSE a

\* one pass of the body of the for loop of the free function parseCSVLine
g_parseCSVLineStep(line, st, p) ==
    IF p # st.i THEN st
    ELSE LET c == line[p] IN
         IF st.inQuotes
         THEN IF c = Quote
              THEN IF p + 1 <= Len(line) /\ line[p + 1] = Quote
                   THEN [st EXCEPT !.current = Append(@, Quote), !.i = p + 2]
                   ELSE [st EXCEPT !.inQuotes = FALSE, !.i = p + 1]
              ELSE [st EXCEPT !.current = Append(@, c), !.i = p + 1]
         ELSE IF c = Quote
              THEN [st EXCEPT !.inQuotes = TRUE, !.i = p + 1]
              ELSE IF c = Comma
              THEN [st EXCEPT !.fields = Append(@, g_cleanString(st.current)),
                              !.current = <<>>, !.i = p + 1]
              ELSE IF c = CR
              THEN [st EXCEPT !.i = p + 1]
              ELSE [st EXCEPT !.current = Append(@, c), !.i = p + 1]

----------------------------------------------------------------------------
(* ServiceRequest                                                          *)

\* number of fields fromFields asks for
MinFields == 43

\* a default-constructed ServiceRequest (the member initialisers)
ServiceRequestDefault ==
    [uniqueKey |-> U64Zero,
     createdDate |-> DateTimeDefault, closedDate |-> DateTimeDefault,
     dueDate |-> DateTimeDefault, resolutionUpdatedDate |-> DateTimeDefault,
     agency |-> <<>>, agencyName |-> <<>>,
     complaintType |-> <<>>, descriptor |-> <<>>, additionalDetails |-> <<>>,
     locationType |-> <<>>, incidentZip |-> U32Zero, incidentAddress |-> <<>>,
     streetName |-> <<>>, crossStreet1 |-> <<>>, crossStreet2 |-> <<>>,
     intersectionStreet1 |-> <<>>, intersectionStreet2 |-> <<>>,
     addressType |-> <<>>, city |-> <<>>, landmark |-> <<>>,
     facilityType |-> <<>>, status |-> <<>>, resolutionDescription |-> <<>>,
     communityBoard |-> <<>>, councilDistrict |-> -1, policePrecinct |-> <<>>,
     bbl |-> U64Zero, borough |-> <<>>, xCoordinate |-> 0, yCoordinate |-> 0,
     latitude |-> 0, longitude |-> 0, channelType |-> <<>>,
     parkFacilityName |-> <<>>, parkBorough |-> <<>>, vehicleType |-> <<>>,
     taxiCompanyBorough |-> <<>>, taxiPickupLocation |-> <<>>,
     bridgeHighwayName |-> <<>>, bridgeHighwayDirection |-> <<>>,
     roadRamp |-> <<>>, bridgeHighwaySegment |-> <<>>]

\* the assignments of fromFields: every attribute gets the value of its
\* column; f[k] is the code's f[k-1]
AssignFields(f) ==
    [uniqueKey |-> parseU64(f[1]),
     createdDate |-> DateTime_parse(f[2]),
     closedDate |-> DateTime_parse(f[3]),
     agency |-> f[4], agencyName |-> f[5],
     complaintType |-> f[6], descriptor |-> f[7],
     additionalDetails |-> f[8], locationType |-> f[9],
     incidentZip |-> parseZip(f[10]),
     incidentAddress |-> f[11], streetName |-> f[12],
     crossStreet1 |-> f[13], crossStreet2 |-> f[14],
     intersectionStreet1 |-> f[15], intersectionStreet2 |-> f[16],
     addressType |-> f[17], city |-> f[18], landmark |-> f[19],
     facilityType |-> f[20], status |-> f[21],
     dueDate |-> DateTime_parse(f[22]),
     resolutionDescription |-> f[23],
     resolutionUpdatedDate |-> DateTime_parse(f[24]),
     communityBoard |-> f[25],
     councilDistrict |-> parseInt16(f[26]),
     policePrecinct |-> f[27],
     bbl |-> parseU64(f[28]),
     borough |-> f[29],
     xCoordinate |-> parseInt32(f[30]),
     yCoordinate |-> parseInt32(f[31]),
     channelType |-> f[32], parkFacilityName |-> f[33],
     parkBorough |-> f[34], vehicleType |-> f[35],
     taxiCompanyBorough |-> f[36], taxiPickupLocation |-> f[37],
     bridgeHighwayName |-> f[38], bridgeHighwayDirection |-> f[39],
     roadRamp |-> f[40], bridgeHighwaySegment |-> f[41],
     latitude |-> parseDouble(f[42]),
     longitude |-> parseDouble(f[43])]

\* fromFields as it would be if the first attribute were assigned before the
\* number of fields is tested
fromFields_assignFirst(rec, f) ==
    IF Len(f) < MinFields
    THEN [ok |-> FALSE, rec |-> [rec EXCEPT !.uniqueKey = parseU64(f[1])]]
    ELSE [ok |-> TRUE, rec |-> AssignFields(f)]

\* the object rec after the assignments new: an attribute that is assigned
\* takes the new value, any other keeps the value it had
Assigned(rec, new) ==
    [a \in DOMAIN rec |-> IF a \in DOMAIN new THEN new[a] ELSE rec[a]]

\* fromFields as it would be if the zip were assigned only when its column
\* is not empty
fromFields_skipsEmptyZip(rec, f) ==
    IF Len(f) < MinFields THEN [ok |-> FALSE, rec |-> rec]
    ELSE [ok |-> TRUE,
          rec |-> [Assigned(rec, AssignFields(f)) EXCEPT
                      !.incidentZip = IF f[10] = <<>> THEN rec.incidentZip
                                      ELSE @]]

\* ServiceRequest::fromFields on the object rec: the value returned (ok) and
\* the object afterwards.  f[k] is the code's f[k-1].
fromFields(rec, f) ==
    IF Len(f) < MinFields THEN [ok |-> FALSE, rec |-> rec]
    ELSE [ok |-> TRUE, rec |-> Assigned(rec, AssignFields(f))]

----------------------------------------------------------------------------
(* Case-insensitive comparison                                             *)

\* iequal: same size and equal character by character after tolower
iequal(a, b) ==
    IF Len(a) # Len(b) THEN FALSE
    ELSE \A i \in 1..Len(a) : tolower(a[i]) = tolower(b[i])

\* icontains as it would be if the needle were looked for at the start of
\* the haystack only
icontains_atStart(haystack, needle) ==
    IF needle = <<>> THEN TRUE
    ELSE /\ Len(needle) <= Len(haystack)
         /\ \A i \in 1..Len(needle) :
                tolower(haystack[i]) = tolower(needle[i])

\* icontains: std::search of needle in haystack under tolower equality;
\* an empty needle is contained in everything
icontains(haystack, needle) ==
    IF needle = <<>> THEN TRUE
    ELSE \E p \in 1..(Len(haystack) - Len(needle) + 1) :
            \A i \in 1..Len(needle) :
                tolower(haystack[p + i - 1]) = tolower(needle[i])

----------------------------------------------------------------------------
(* Input files                                                             *)

RECURSIVE Join(_, _, _)
\* the fields lo..hi written with a comma between two fields
Join(f, lo, hi) ==
    IF lo > hi THEN <<>>
    ELSE IF lo = hi THEN f[lo]
    ELSE LET mid == (lo + hi) \div 2
         IN  Join(f, lo, mid) \o <<Comma>> \o Join(f, mid + 1, hi)

\* a CSV line of n columns: column k holds vals[k] as written (quoting
\* included) when vals gives one, and is empty otherwise
Row(n, vals) ==
    Join([k \in 1..n |-> IF k \in DOMAIN vals THEN vals[k] ELSE <<>>], 1, n)

\* "01/02/2015 03:04:05 PM"
DateText1 == <<"0","1","/","0","2","/","2","0","1","5"," ",
               "0","3",":","0","4",":","0","5"," ","P","M">>
\* "12/31/2014 12:00:00 AM"
DateText2 == <<"1","2","/","3","1","/","2","0","1","4"," ",
               "1","2",":","0","0",":","0","0"," ","A","M">>
\* "06/15/2016 11:59:59 AM"
DateText3 == <<"0","6","/","1","5","/","2","0","1","6"," ",
               "1","1",":","5","9",":","5","9"," ","A","M">>

\* 44 columns, every queried column filled in
LineA ==
    Row(44, 1 :> <<"1">> @@ 2 :> DateText1 @@ 4 :> <<"N","Y","P","D">>
         @@ 6 :> <<"N","o","i","s","e">> @@ 10 :> <<"1","0","0","0","1">>
         @@ 21 :> <<"O","p","e","n">> @@ 26 :> <<"3">>
         @@ 29 :> <<"B","K">> @@ 42 :> <<"4","0",".","7">>
         @@ 43 :> <<"-","7","4",".","0">> @@ 44 :> <<"P">>)

\* 43 columns, the same unique key as LineA, a quoted complaint type with a
\* comma in it, an empty council district
LineB ==
    Row(43, 1 :> <<"1">> @@ 2 :> DateText2 @@ 4 :> <<"d","o","t">>
         @@ 6 :> <<Quote,"I","c","e",Comma,"n","o","i","s","y",Quote>>
         @@ 10 :> <<"1","0","0","0","2">>
         @@ 21 :> <<"C","l","o","s","e","d">>
         @@ 29 :> <<"b","k">> @@ 42 :> <<"4","0",".","9">>
         @@ 43 :> <<"-","7","3",".","9">>)

\* 43 columns, all empty but a non-numeric unique key
LineC == Row(43, 1 :> <<"x">>)

\* 42 columns: one short of what fromFields asks for
LineShort ==
    Row(42, 1 :> <<"9">> @@ 2 :> DateText3 @@ 10 :> <<"1","0","0","0","1">>
         @@ 29 :> <<"B","K">>)

\* an empty line
LineBlank == <<>>

\* what std::getline hands out for an empty line of a CR LF file
LineCR == <<CR>>

\* the header line (its content is never looked at)
HeaderLine == <<"K","e","y",Comma,"D","a","t","e">>

\* the data lines a file is made of
DataLines == {LineA, LineB, LineC, LineShort, LineBlank, LineCR}

\* the names of the data lines
LineNames == {"A", "B", "C", "Short", "Blank", "CR"}

LineNamed(name) ==
    CASE name = "A" -> LineA
      [] name = "B" -> LineB
      [] name = "C" -> LineC
      [] name = "Short" -> LineShort
      [] name = "Blank" -> LineBlank
      [] name = "CR" -> LineCR

\* the paths a load can be given: "missing" cannot be opened, "empty" has
\* no line, and every other path names the data lines of its file
Paths ==
    {<<"missing">>, <<"empty">>}
    \cup {<<"rows">> \o names :
            names \in UNION {[1..n -> LineNames] : n \in 0..MaxRows}}

\* the file std::ifstream finds at the path
FileAt(path) ==
    IF path[1] = "missing" THEN [open |-> FALSE, lines |-> <<>>]
    ELSE IF path[1] = "empty" THEN [open |-> TRUE, lines |-> <<>>]
    ELSE [open |-> TRUE,
          lines |-> <<HeaderLine>>
                    \o [k \in 1..(Len(path) - 1) |-> LineNamed(path[k + 1])]]

\* parseLine and parseCSVLine on every line of the input files
parseLineOf == [line \in DataLines |-> parseLine(line)]

parseCSVLineOf == [line \in DataLines |-> parseCSVLine(line)]

----------------------------------------------------------------------------
(* CsvReader and DataStore::load                                           *)

\* load without the call of clear: the elements stay where they are
vector_clear_absent(vec) == vec

\* std::vector::clear on the vector vec = [elems, epoch]: every element is
\* destroyed, so the objects pushed later are other objects
vector_clear(vec) == [elems |-> <<>>, epoch |-> vec.epoch + 1]

\* CsvReader::open: the counters are reset, then the file is opened; on
\* success one line, the header, is consumed.  unread: the lines getline
\* has not handed out yet.
CsvReader_open(file) ==
    [ok |-> file.open, skipped |-> 0, total |-> 0,
     unread |-> IF file.open /\ file.lines # <<>>
                THEN Tail(file.lines) ELSE <<>>]

\* the end of one pass of the loop of readAll: r is what fromFields gave for
\* a row of nfields fields
readAllPush(acc, nfields, r) ==
    IF ~r.ok
    THEN [acc EXCEPT !.total = @ + 1, !.skipped = @ + 1, !.rec = r.rec,
                     !.log = Append(@, [nfields |-> nfields, ok |-> FALSE,
                                        changed |-> r.rec # acc.rec,
                                        stored |-> 0])]
    ELSE [acc EXCEPT !.total = @ + 1, !.rec = r.rec,
                     !.out = Append(@, r.rec),
                     !.log = Append(@, [nfields |-> nfields, ok |-> TRUE,
                                        changed |-> r.rec # acc.rec,
                                        stored |-> Len(acc.out) + 1])]

\* one pass of the loop of readAll on a non-empty line decoded to fields:
\* ++total_, rec.fromFields(fields), then ++skipped_ or out.push_back(rec)
readAllRow(acc, fields) ==
    readAllPush(acc, Len(fields), fromFields(acc.rec, fields))

RECURSIVE readAllLoop_stopOnReject(_, _, _)
\* the loop of readAll as it would be if a rejected row ended it
readAllLoop_stopOnReject(lines, k, acc) ==
    IF k > Len(lines) THEN acc
    ELSE IF lines[k] = <<>> THEN readAllLoop_stopOnReject(lines, k + 1, acc)
    ELSE IF Len(parseLineOf[lines[k]]) < MinFields
    THEN readAllRow(acc, parseLineOf[lines[k]])
    ELSE readAllLoop_stopOnReject(lines, k + 1,
                                  readAllRow(acc, parseLineOf[lines[k]]))

RECURSIVE readAllLoop(_, _, _)
\* the while loop of CsvReader::readAll from the k-th unread line on.
\* acc: out, the reused object rec, total_, skipped_ and the log of the
\* fromFields calls.
readAllLoop(lines, k, acc) ==
    IF k > Len(lines) THEN acc
    ELSE IF lines[k] = <<>> THEN readAllLoop(lines, k + 1, acc)
    ELSE readAllLoop(lines, k + 1, readAllRow(acc, parseLineOf[lines[k]]))

\* return out.size(): what readAll leaves when its loop ended in acc
readAllReturn(acc) ==
    [out |-> acc.out, total |-> acc.total, skipped |-> acc.skipped,
     ret |-> Len(acc.out), log |-> acc.log]

\* CsvReader::readAll(out) on the reader state rd: out afterwards, the
\* counters, the value returned
CsvReader_readAll(rd, out) ==
    IF ~rd.ok
    THEN [out |-> out, total |-> rd.total, skipped |-> rd.skipped,
          ret |-> 0, log |-> <<>>]
    ELSE readAllReturn(readAllLoop(rd.unread, 1,
                           [out |-> out, rec |-> ServiceRequestDefault,
                            total |-> rd.total, skipped |-> rd.skipped,
                            log |-> <<>>]))

\* one pass of the loop of readChunk as it would be if the callback were
\* called before the result of fromFields is tested
readChunkRow_callbackFirst(acc, fields) ==
    IF ~fromFields(ServiceRequestDefault, fields).ok
    THEN [acc EXCEPT !.total = @ + 1, !.skipped = @ + 1,
                     !.handed = Append(@, fromFields(ServiceRequestDefault,
                                                     fields).rec)]
    ELSE [acc EXCEPT !.total = @ + 1,
                     !.handed = Append(@, fromFields(ServiceRequestDefault,
                                                     fields).rec)]

\* one pass of the loop of readChunk on a non-empty line decoded to fields:
\* ++total_, a new ServiceRequest rec, rec.fromFields(fields), then
\* ++skipped_ or cb(std::move(rec)); handed holds the records the callback
\* was called with
readChunkRow(acc, fields) ==
    IF ~fromFields(ServiceRequestDefault, fields).ok
    THEN [acc EXCEPT !.total = @ + 1, !.skipped = @ + 1]
    ELSE [acc EXCEPT !.total = @ + 1,
                     !.handed = Append(@, fromFields(ServiceRequestDefault,
                                                     fields).rec)]

\* one pass of the while loop of CsvReader::readChunk on the line
\* std::getline read: an empty line is passed over
readChunkLine(acc, line) ==
    IF line = <<>> THEN acc ELSE readChunkRow(acc, parseLineOf[line])

\* the end of DataStore::load: r is what readAll returned and left in the
\* cleared vector
loadReturn(cleared, r) ==
    [vec |-> [cleared EXCEPT !.elems = r.out], ret |-> r.ret,
     total |-> r.total, skipped |-> r.skipped, log |-> r.log]

\* DataStore::load after records_.clear(): open, readAll, close
loadCleared(cleared, rd) ==
    IF ~rd.ok
    THEN [vec |-> cleared, ret |-> 0, total |-> rd.total,
          skipped |-> rd.skipped, log |-> <<>>]
    ELSE loadReturn(cleared, CsvReader_readAll(rd, cleared.elems))

\* load as it would be if the file were opened before the vector is
\* cleared and a failure to open returned at once
DataStore_load_openFirst(vec, file) ==
    IF ~file.open
    THEN [vec |-> vec, ret |-> 0, total |-> 0, skipped |-> 0, log |-> <<>>]
    ELSE loadCleared(vector_clear(vec), CsvReader_open(file))

\* DataStore::load on the vector vec = [elems, epoch]
DataStore_load(vec, file) ==
    loadCleared(vector_clear(vec), CsvReader_open(file))

----------------------------------------------------------------------------
(* NYC311Analyzer::loadData                                                *)

\* the end of one pass of the loop of loadData: r is what fromFields gave
\* on a new ServiceRequest for a row of nfields fields
loadDataPush(acc, nfields, r) ==
    IF r.ok
    THEN [acc EXCEPT !.lineCount = @ + 1,
                     !.records = Append(@, r.rec),
                     !.log = Append(@, [nfields |-> nfields, ok |-> TRUE,
                                        changed |-> r.rec # ServiceRequestDefault,
                                        stored |-> Len(acc.records) + 1])]
    ELSE [acc EXCEPT !.lineCount = @ + 1, !.skipCount = @ + 1,
                     !.log = Append(@, [nfields |-> nfields, ok |-> FALSE,
                                        changed |-> r.rec # ServiceRequestDefault,
                                        stored |-> 0])]

\* one pass of the loop of loadData on a non-empty line decoded to fields
loadDataRow(acc, fields) ==
    loadDataPush(acc, Len(fields), fromFields(ServiceRequestDefault, fields))

RECURSIVE loadDataLoop(_, _, _)
\* the while loop of NYC311Analyzer::loadData from the k-th line after the
\* header on; every row gets a new ServiceRequest
loadDataLoop(lines, k, acc) ==
    IF k > Len(lines) THEN acc
    ELSE IF lines[k] = <<>> THEN loadDataLoop(lines, k + 1, acc)
    ELSE loadDataLoop(lines, k + 1,
                      loadDataRow(acc, parseCSVLineOf[lines[k]]))

\* NYC311Analyzer::loadData on the member vector recs
NYC311Analyzer_loadData(recs, file) ==
    IF ~file.open
    THEN [records |-> recs, lineCount |-> 0, skipCount |-> 0, log |-> <<>>]
    ELSE loadDataLoop(IF file.lines # <<>> THEN Tail(file.lines) ELSE <<>>, 1,
                      [records |-> recs, lineCount |-> 0, skipCount |-> 0,
                       log |-> <<>>])

----------------------------------------------------------------------------
(* loadData of the free-function program                                   *)

\* RECORD_LIMIT
RECORD_LIMIT == 16000000

\* the end of one pass of the loop of the free function loadData
g_loadDataPush(acc, nfields, r) ==
    IF r.ok
    THEN [acc EXCEPT !.lineCount = @ + 1,
                     !.records = Append(@, r.rec),
                     !.validRecords = @ + 1,
                     !.stopped = acc.validRecords + 1 >= RECORD_LIMIT,
                     !.log = Append(@, [nfields |-> nfields, ok |-> TRUE,
                                        changed |-> r.rec # ServiceRequestDefault,
                                        stored |-> Len(acc.records) + 1])]
    ELSE [acc EXCEPT !.lineCount = @ + 1,
                     !.log = Append(@, [nfields |-> nfields, ok |-> FALSE,
                                        changed |-> r.rec # ServiceRequestDefault,
                                        stored |-> 0])]

\* one pass of the loop of the free function loadData on a line decoded to
\* fields
g_loadDataRow(acc, fields) ==
    g_loadDataPush(acc, Len(fields), fromFields(ServiceRequestDefault, fields))

RECURSIVE g_loadDataLoop(_, _, _)
\* the while loop of the free function loadData: no line is skipped, and the
\* loop is left once RECORD_LIMIT records are stored
g_loadDataLoop(lines, k, acc) ==
    IF k > Len(lines) \/ acc.stopped THEN acc
    ELSE g_loadDataLoop(lines, k + 1,
                        g_loadDataRow(acc, parseCSVLineOf[lines[k]]))

\* the free function loadData: the vector it returns
g_loadData(file) ==
    IF ~file.open
    THEN [records |-> <<>>, lineCount |-> 0, validRecords |-> 0,
          stopped |-> FALSE, log |-> <<>>]
    ELSE g_loadDataLoop(IF file.lines # <<>> THEN Tail(file.lines) ELSE <<>>, 1,
                        [records |-> <<>>,
                         lineCount |-> IF file.lines # <<>> THEN 1 ELSE 0,
                         validRecords |-> 0, stopped |-> FALSE, log |-> <<>>])

----------------------------------------------------------------------------
(* Queries                                                                 *)

RECURSIVE PushBackMatches(_, _, _)
\* the range-for loop shared by every filter: the elements are visited in
\* order from position i on and a visited element whose test hit[i] holds
\* is pushed back; out holds the positions of the elements pushed so far
PushBackMatches(hit, i, out) ==
    IF i > Len(hit) THEN out
    ELSE PushBackMatches(hit, i + 1, IF hit[i] THEN Append(out, i) ELSE out)

\* result.push_back(&r): the objects at the positions idx of the vector
\* whose elements were last destroyed at epoch ep
PointersTo(ep, idx) == [k \in 1..Len(idx) |-> <<ep, idx[k]>>]

\* results.push_back(record): copies of the elements at the positions idx
CopiesOf(recs, idx) == [k \in 1..Len(idx) |-> recs[idx[k]]]

\* DataStore::filterByCreatedDateRange: the positions of the elements pushed
DataStore_filterByCreatedDateRange(recs, start, end) ==
    PushBackMatches([i \in 1..Len(recs) |->
        recs[i].createdDate.valid
        /\ DateTime_ge(recs[i].createdDate, start)
        /\ DateTime_le(recs[i].createdDate, end)], 1, <<>>)

\* DataStore::filterByBorough
DataStore_filterByBorough(recs, borough) ==
    PushBackMatches([i \in 1..Len(recs) |-> iequal(recs[i].borough, borough)],
                    1, <<>>)

\* DataStore::filterByAgency
DataStore_filterByAgency(recs, agency) ==
    PushBackMatches([i \in 1..Len(recs) |-> iequal(recs[i].agency, agency)],
                    1, <<>>)

\* DataStore::filterByComplaintType
DataStore_filterByComplaintType(recs, keyword) ==
    PushBackMatches([i \in 1..Len(recs) |->
        icontains(recs[i].complaintType, keyword)], 1, <<>>)

\* DataStore::filterByStatus
DataStore_filterByStatus(recs, status) ==
    PushBackMatches([i \in 1..Len(recs) |-> iequal(recs[i].status, status)],
                    1, <<>>)

\* filterByZip with >= written for ==
DataStore_filterByZip_atLeast(recs, zip) ==
    PushBackMatches([i \in 1..Len(recs) |-> ~UintLess(recs[i].incidentZip, zip)],
                    1, <<>>)

\* DataStore::filterByZip
DataStore_filterByZip(recs, zip) ==
    PushBackMatches([i \in 1..Len(recs) |-> recs[i].incidentZip = zip],
                    1, <<>>)

\* DataStore::filterByLatLonBox
DataStore_filterByLatLonBox(recs, minLat, maxLat, minLon, maxLon) ==
    PushBackMatches([i \in 1..Len(recs) |->
        recs[i].latitude >= minLat /\ recs[i].latitude <= maxLat
        /\ recs[i].longitude >= minLon /\ recs[i].longitude <= maxLon],
        1, <<>>)

\* DataStore::filterByCouncilDistrict
DataStore_filterByCouncilDistrict(recs, district) ==
    PushBackMatches([i \in 1..Len(recs) |->
        recs[i].councilDistrict = district], 1, <<>>)

\* NYC311Analyzer::filterByDateRange: the positions of the elements copied
NYC311Analyzer_filterByDateRange(recs, start, end) ==
    PushBackMatches([i \in 1..Len(recs) |->
        recs[i].createdDate.valid
        /\ DateTime_ge(recs[i].createdDate, start)
        /\ DateTime_le(recs[i].createdDate, end)], 1, <<>>)

\* NYC311Analyzer::filterByBorough
NYC311Analyzer_filterByBorough(recs, borough) ==
    PushBackMatches([i \in 1..Len(recs) |-> iequal(recs[i].borough, borough)],
                    1, <<>>)

\* NYC311Analyzer::filterByAgency
NYC311Analyzer_filterByAgency(recs, agency) ==
    PushBackMatches([i \in 1..Len(recs) |-> iequal(recs[i].agency, agency)],
                    1, <<>>)

\* NYC311Analyzer::filterByComplaintType
NYC311Analyzer_filterByComplaintType(recs, keyword) ==
    PushBackMatches([i \in 1..Len(recs) |->
        icontains(recs[i].complaintType, keyword)], 1, <<>>)

\* NYC311Analyzer::filterByStatus
NYC311Analyzer_filterByStatus(recs, status) ==
    PushBackMatches([i \in 1..Len(recs) |-> iequal(recs[i].status, status)],
                    1, <<>>)

\* NYC311Analyzer::filterByZip
NYC311Analyzer_filterByZip(recs, zip) ==
    PushBackMatches([i \in 1..Len(recs) |-> recs[i].incidentZip = zip],
                    1, <<>>)

\* NYC311Analyzer::filterByLatLonBox
NYC311Analyzer_filterByLatLonBox(recs, minLat, maxLat, minLon, maxLon) ==
    PushBackMatches([i \in 1..Len(recs) |->
        recs[i].latitude >= minLat /\ recs[i].latitude <= maxLat
        /\ recs[i].longitude >= minLon /\ recs[i].longitude <= maxLon],
        1, <<>>)

\* the free function filterByCreatedDateRange over g_records (no test of
\* createdDate.valid; the field-by-field operators)
g_filterByCreatedDateRange(recs, start, end) ==
    PushBackMatches([i \in 1..Len(recs) |->
        DateTimeF_ge(recs[i].createdDate, start)
        /\ DateTimeF_le(recs[i].createdDate, end)], 1, <<>>)

\* for (auto& c : b) c = std::toupper(c)
ToUpperAll(s) == [i \in 1..Len(s) |-> toupper(s[i])]

\* for (auto& c : key) c = std::tolower(c)
ToLowerAll(s) == [i \in 1..Len(s) |-> tolower(s[i])]

\* std::string::npos, written as a position no string has
npos == -1

\* std::string::find(key): the first position (from 0) at which key stands
\* in s, npos if there is none; an empty key is found at 0
string_find(s, key) ==
    IF \E p \in 0..(Len(s) - Len(key)) : SubSeq(s, p + 1, p + Len(key)) = key
    THEN CHOOSE p \in 0..(Len(s) - Len(key)) :
             /\ SubSeq(s, p + 1, p + Len(key)) = key
             /\ \A q \in 0..(p - 1) : SubSeq(s, q + 1, q + Len(key)) # key
    ELSE npos

\* the free function filterByBorough over g_records: a record with an empty
\* borough is passed over, the others are compared in upper case
g_filterByBorough(recs, borough) ==
    PushBackMatches([i \in 1..Len(recs) |->
        /\ recs[i].borough # <<>>
        /\ ToUpperAll(recs[i].borough) = ToUpperAll(borough)], 1, <<>>)

\* the free function searchByComplaint over g_records
g_searchByComplaint(recs, keyword) ==
    PushBackMatches([i \in 1..Len(recs) |->
        string_find(ToLowerAll(recs[i].complaintType), ToLowerAll(keyword))
            # npos], 1, <<>>)

----------------------------------------------------------------------------
(* Query arguments                                                         *)

QueryDates ==
    {DateTime_parse(DateText1), DateTime_parse(DateText2), DateTimeDefault}
QueryBoroughs == {<<"b","k">>, <<"B">>, <<>>}
QueryAgencies == {<<"n","y","p","d">>, <<"D","O","T">>}
QueryKeywords == {<<"N","O","I","S">>, <<"e",Comma,"n">>, <<>>}
QueryStatuses == {<<"o","p","e","n">>, <<"C","L","O","S","E","D">>}
QueryZips == {<<0, 10001>>, <<0, 10002>>, U32Zero}
\* latitude and longitude bounds, in thousandths of a degree
QueryBoxes ==
    {[minLat |-> 40700, maxLat |-> 40900, minLon |-> -74000, maxLon |-> -73900],
     [minLat |-> 40800, maxLat |-> 41000, minLon |-> -74000, maxLon |-> -73000],
     [minLat |-> 0, maxLat |-> 0, minLon |-> 0, maxLon |-> 0]}
QueryDistricts == {3, -1}

----------------------------------------------------------------------------
(* The three programs as state machines                                    *)

Init ==
    /\ variant \in {"DataStore", "NYC311Analyzer", "global"}
    /\ records_ = <<>>
    /\ epoch = 0
    /\ skipped_ = 0
    /\ total_ = 0
    /\ loadRet = -1
    /\ result = [ptrs |-> <<>>, at |-> 0]
    /\ records = <<>>
    /\ lineCount = 0
    /\ skipCount = 0
    /\ results = <<>>
    /\ g_records = <<>>
    /\ rowlog = <<>>
    /\ last = [op |-> "none"]
    /\ loads = 0
    /\ call = [fn |-> "none"]

\* a call of DataStore::load
DS_Load(path) ==
    /\ variant = "DataStore"
    /\ loads < MaxLoads
    /\ \E r \in {DataStore_load([elems |-> records_, epoch |-> epoch],
                                 FileAt(path))} :
           /\ records_' = r.vec.elems
           /\ epoch' = r.vec.epoch
           /\ total_' = r.total
           /\ skipped_' = r.skipped
           /\ loadRet' = r.ret
           /\ rowlog' = r.log
    /\ last' = [op |-> "load", path |-> path, before |-> Len(records_)]
    /\ loads' = loads + 1
    /\ UNCHANGED <<call, variant, result, records, lineCount, skipCount,
                   results, g_records>>

\* a query that moves the matches to the front of the vector (as
\* std::partition would) before it returns them
DS_Return_partition(op, arg, idx) ==
    /\ variant = "DataStore"
    /\ records_' = CopiesOf(records_, idx)
                     \o SelectSeq(records_,
                           LAMBDA r : \A k \in 1..Len(idx) :
                                          records_[idx[k]] # r)
    /\ result' = [ptrs |-> PointersTo(epoch, [k \in 1..Len(idx) |-> k]),
                  at |-> loads]
    /\ last' = [op |-> op, arg |-> arg]
    /\ UNCHANGED <<call, variant, epoch, skipped_, total_, loadRet,
                   records, lineCount, skipCount, results, g_records,
                   rowlog, loads>>

\* the return of a query as it would be if its QueryResult were a static
\* local: the matches are pushed behind those of the query before
DS_Return_staticResult(op, arg, idx) ==
    /\ variant = "DataStore"
    /\ result' = [ptrs |-> result.ptrs \o PointersTo(epoch, idx),
                  at |-> loads]
    /\ last' = [op |-> op, arg |-> arg]
    /\ UNCHANGED <<call, variant, records_, epoch, skipped_, total_, loadRet,
                   records, lineCount, skipCount, results, g_records,
                   rowlog, loads>>

\* a DataStore query returns: the caller holds the QueryResult made of the
\* elements at the positions idx; the query is const and changes nothing
\* of the store or of its reader
DS_Return(op, arg, idx) ==
    /\ variant = "DataStore"
    /\ result' = [ptrs |-> PointersTo(epoch, idx), at |-> loads]
    /\ last' = [op |-> op, arg |-> arg]
    /\ UNCHANGED <<call, variant, records_, epoch, skipped_, total_, loadRet,
                   records, lineCount, skipCount, results, g_records,
                   rowlog, loads>>

DS_FilterByCreatedDateRange(start, end) ==
    DS_Return("filterByCreatedDateRange", <<start, end>>,
              DataStore_filterByCreatedDateRange(records_, start, end))

DS_FilterByBorough(borough) ==
    DS_Return("filterByBorough", borough,
              DataStore_filterByBorough(records_, borough))

DS_FilterByAgency(agency) ==
    DS_Return("filterByAgency", agency,
              DataStore_filterByAgency(records_, agency))

DS_FilterByComplaintType(keyword) ==
    DS_Return("filterByComplaintType", keyword,
              DataStore_filterByComplaintType(records_, keyword))

DS_FilterByStatus(status) ==
    DS_Return("filterByStatus", status,
              DataStore_filterByStatus(records_, status))

DS_FilterByZip(zip) ==
    DS_Return("filterByZip", zip, DataStore_filterByZip(records_, zip))

DS_FilterByLatLonBox(box) ==
    DS_Return("filterByLatLonBox", box,
              DataStore_filterByLatLonBox(records_, box.minLat, box.maxLat,
                                          box.minLon, box.maxLon))

DS_FilterByCouncilDistrict(district) ==
    DS_Return("filterByCouncilDistrict", district,
              DataStore_filterByCouncilDistrict(records_, district))

\* a call of NYC311Analyzer::loadData
An_LoadData(path) ==
    /\ variant = "NYC311Analyzer"
    /\ loads < MaxLoads
    /\ \E r \in {NYC311Analyzer_loadData(records, FileAt(path))} :
           /\ records' = r.records
           /\ lineCount' = r.lineCount
           /\ skipCount' = r.skipCount
           /\ rowlog' = r.log
    /\ last' = [op |-> "loadData", path |-> path, before |-> Len(records)]
    /\ loads' = loads + 1
    /\ UNCHANGED <<call, variant, records_, epoch, skipped_, total_, loadRet,
                   result, results, g_records>>

\* an NYC311Analyzer query returns copies of the elements at the positions
\* idx; the loop reads records through a const reference
An_Return(op, arg, idx) ==
    /\ variant = "NYC311Analyzer"
    /\ results' = CopiesOf(records, idx)
    /\ last' = [op |-> op, arg |-> arg]
    /\ UNCHANGED <<call, variant, records_, epoch, skipped_, total_, loadRet,
                   result, records, lineCount, skipCount, g_records,
                   rowlog, loads>>

An_FilterByDateRange(start, end) ==
    An_Return("filterByDateRange", <<start, end>>,
              NYC311Analyzer_filterByDateRange(records, start, end))

An_FilterByBorough(borough) ==
    An_Return("filterByBorough", borough,
              NYC311Analyzer_filterByBorough(records, borough))

An_FilterByAgency(agency) ==
    An_Return("filterByAgency", agency,
              NYC311Analyzer_filterByAgency(records, agency))

An_FilterByComplaintType(keyword) ==
    An_Return("filterByComplaintType", keyword,
              NYC311Analyzer_filterByComplaintType(records, keyword))

An_FilterByStatus(status) ==
    An_Return("filterByStatus", status,
              NYC311Analyzer_filterByStatus(records, status))

An_FilterByZip(zip) ==
    An_Return("filterByZip", zip, NYC311Analyzer_filterByZip(records, zip))

An_FilterByLatLonBox(box) ==
    An_Return("filterByLatLonBox", box,
              NYC311Analyzer_filterByLatLonBox(records, box.minLat,
                                               box.maxLat, box.minLon,
                                               box.maxLon))

\* main of the free-function program: g_records = loadData(filename)
G_Load(path) ==
    /\ variant = "global"
    /\ loads < MaxLoads
    /\ \E r \in {g_loadData(FileAt(path))} :
           /\ g_records' = r.records
           /\ rowlog' = r.log
    /\ last' = [op |-> "g_loadData", path |-> path, before |-> Len(g_records)]
    /\ loads' = loads + 1
    /\ UNCHANGED <<call, variant, records_, epoch, skipped_, total_, loadRet,
                   result, records, lineCount, skipCount, results>>

\* the free function filterByCreatedDateRange returns copies
G_FilterByCreatedDateRange(start, end) ==
    /\ variant = "global"
    /\ results' = CopiesOf(g_records,
                      g_filterByCreatedDateRange(g_records, start, end))
    /\ last' = [op |-> "g_filterByCreatedDateRange", arg |-> <<start, end>>]
    /\ UNCHANGED <<call, variant, records_, epoch, skipped_, total_, loadRet,
                   result, records, lineCount, skipCount, g_records,
                   rowlog, loads>>

\* a free-function query returns copies of the elements at the positions idx
G_Return(op, arg, idx) ==
    /\ variant = "global"
    /\ results' = CopiesOf(g_records, idx)
    /\ last' = [op |-> op, arg |-> arg]
    /\ UNCHANGED <<call, variant, records_, epoch, skipped_, total_, loadRet,
                   result, records, lineCount, skipCount, g_records,
                   rowlog, loads>>

G_FilterByBorough(borough) ==
    G_Return("g_filterByBorough", borough,
             g_filterByBorough(g_records, borough))

G_SearchByComplaint(keyword) ==
    G_Return("g_searchByComplaint", keyword,
             g_searchByComplaint(g_records, keyword))

Next ==
    \/ \E path \in Paths : DS_Load(path)
    \/ \E start \in QueryDates, end \in QueryDates :
           DS_FilterByCreatedDateRange(start, end)
    \/ \E borough \in QueryBoroughs : DS_FilterByBorough(borough)
    \/ \E agency \in QueryAgencies : DS_FilterByAgency(agency)
    \/ \E keyword \in QueryKeywords : DS_FilterByComplaintType(keyword)
    \/ \E status \in QueryStatuses : DS_FilterByStatus(status)
    \/ \E zip \in QueryZips : DS_FilterByZip(zip)
    \/ \E box \in QueryBoxes : DS_FilterByLatLonBox(box)
    \/ \E district \in QueryDistricts : DS_FilterByCouncilDistrict(district)
    \/ \E path \in Paths : An_LoadData(path)
    \/ \E start \in QueryDates, end \in QueryDates :
           An_FilterByDateRange(start, end)
    \/ \E borough \in QueryBoroughs : An_FilterByBorough(borough)
    \/ \E agency \in QueryAgencies : An_FilterByAgency(agency)
    \/ \E keyword \in QueryKeywords : An_FilterByComplaintType(keyword)
    \/ \E status \in QueryStatuses : An_FilterByStatus(status)
    \/ \E zip \in QueryZips : An_FilterByZip(zip)
    \/ \E box \in QueryBoxes : An_FilterByLatLonBox(box)
    \/ \E path \in Paths : G_Load(path)
    \/ \E start \in QueryDates, end \in QueryDates :
           G_FilterByCreatedDateRange(start, end)
    \/ \E borough \in QueryBoroughs : G_FilterByBorough(borough)
    \/ \E keyword \in QueryKeywords : G_SearchByComplaint(keyword)

Spec == Init /\ [][Next]_vars

----------------------------------------------------------------------------
(* The library functions called on their own: inputs                       *)

\* longest line handed to a decoder
MaxLineLen == 5

\* the characters the lines are written with: a letter, the delimiter, the
\* quote and the carriage return
LineChars == {"a", Comma, Quote, CR}

\* "a,b,c"
LineABC == <<"a", Comma, "b", Comma, "c">>

\* the lines handed to a decoder
DecoderLines ==
    UNION {[1..n -> LineChars] : n \in 0..MaxLineLen} \cup {LineABC}

\* the three line decoders
Decoders == {"parseLine", "parseCSVLine", "g_parseCSVLine"}

\* a decoder entered with the line l: the loop variable (from 1), inQuotes,
\* current and fields as the declarations leave them
DecoderCalls ==
    {[fn |-> d, line |-> l, done |-> FALSE,
      st |-> [i |-> 1, inQuotes |-> FALSE, current |-> <<>>,
              fields |-> <<>>]] : d \in Decoders, l \in DecoderLines}

\* n written with two digits
TwoDigits(n) == <<DigitChars[(n \div 10) + 1], DigitChars[(n % 10) + 1]>>

\* the text "MM/DD/YYYY HH:MM:SS AM" of the date and 12-hour time w
DateTimeText(w) ==
    TwoDigits(w.month) \o <<"/">> \o TwoDigits(w.day) \o <<"/">>
    \o TwoDigits(w.year \div 100) \o TwoDigits(w.year % 100) \o <<" ">>
    \o TwoDigits(w.hour) \o <<":">> \o TwoDigits(w.minute) \o <<":">>
    \o TwoDigits(w.second) \o <<" ">> \o w.meridiem

\* the dates and 12-hour times the texts are written from
WrittenTimes ==
    [month : {1, 12}, day : {1, 31}, year : {2010, 2024}, hour : 1..12,
     minute : {0, 59}, second : {0, 59},
     meridiem : {<<"A","M">>, <<"P","M">>, <<"a","m">>, <<"p","m">>}]

\* "03:04:05 PM 01/02/2015": the time before the date
DateTextSwapped == <<"0","3",":","0","4",":","0","5"," ","P","M"," ",
                     "0","1","/","0","2","/","2","0","1","5">>

\* texts from which the six numbers and the meridiem cannot all be read in
\* order: DateText1 cut before its meridiem (the empty text, the texts
\* shorter than 11 characters and the text without a meridiem among them),
\* DateText1 with a letter in the place of one of the characters before
\* the last digit of the seconds (a letter there ends the seconds and is
\* read as the meridiem token), and the time written before the date
MalformedTexts ==
    {SubSeq(DateText1, 1, k) : k \in 0..20}
    \cup {[DateText1 EXCEPT ![p] = "x"] : p \in 1..18}
    \cup {DateTextSwapped}

\* "03:04:05 PM" on 01/02/2015, the time every written time below departs
\* from in one place
WrittenBase ==
    [month |-> 1, day |-> 2, year |-> 2015, hour |-> 3, minute |-> 4,
     second |-> 5, meridiem |-> <<"P","M">>]

\* written times with one number outside the calendar or the clock: month 0
\* and 13, day 0 and 32, year 10000 and 65535, hour 0 and 13, minute 60,
\* second 60
OutOfRangeTimes ==
    {[WrittenBase EXCEPT !.month = m] : m \in {0, 13}}
    \cup {[WrittenBase EXCEPT !.day = d] : d \in {0, 32}}
    \cup {[WrittenBase EXCEPT !.year = y] : y \in {10000, 65535}}
    \cup {[WrittenBase EXCEPT !.hour = h, !.meridiem = m] :
              h \in {0, 13}, m \in {<<"A","M">>, <<"P","M">>}}
    \cup {[WrittenBase EXCEPT !.minute = 60], [WrittenBase EXCEPT !.second = 60]}

\* the text of the written time w with every number in as many digits as it
\* takes, two at least
DateTimeTextWide(w) ==
    ZeroPadded(Decimal(w.month), 2) \o <<"/">>
    \o ZeroPadded(Decimal(w.day), 2) \o <<"/">>
    \o ZeroPadded(Decimal(w.year), 4) \o <<" ">>
    \o ZeroPadded(Decimal(w.hour), 2) \o <<":">>
    \o ZeroPadded(Decimal(w.minute), 2) \o <<":">>
    \o ZeroPadded(Decimal(w.second), 2) \o <<" ">> \o w.meridiem

\* DateTime::parse entered with a text; w tells what the text was written
\* from; out is what parse returned and str what toString made of it
ParseCalls ==
    {[fn |-> "DateTime_parse", text |-> DateTimeText(w), written |-> <<w>>,
      done |-> FALSE, out |-> DateTimeDefault, shown |-> FALSE,
      str |-> <<>>] : w \in WrittenTimes}
    \cup {[fn |-> "DateTime_parse", text |-> DateTimeTextWide(w),
           written |-> <<w>>, done |-> FALSE, out |-> DateTimeDefault,
           shown |-> FALSE, str |-> <<>>] : w \in OutOfRangeTimes}
    \cup {[fn |-> "DateTime_parse", text |-> t, written |-> <<>>,
           done |-> FALSE, out |-> DateTimeDefault, shown |-> FALSE,
           str |-> <<>>] : t \in MalformedTexts}

\* texts without a digit to convert: nothing, a letter, a sign alone, a
\* blank, a sign after a letter, a digit after a letter, a digit after a
\* blank after a sign
TextsWithoutNumber ==
    {<<>>, <<"x">>, <<"-">>, <<"+">>, <<" ">>, <<"N","/","A">>,
     <<"x","7">>, <<"-"," ","7">>, <<".","5">>}

\* decimal texts whose number every integer column holds
TextsInRange ==
    {<<"0">>, <<"7">>, <<"0","0","7">>, <<" ","7">>, <<"+","7">>,
     <<"7","x">>, <<"7",".","9">>, <<"1","0","0","0","1">>,
     <<"3","2","7","6","7">>}

\* decimal texts at the edges of 16, 32 and 64 bits: 2^15, 2^16 - 1, 2^16,
\* 2^31 - 1, 2^31, 2^32 - 1, 2^32, 2^32 + 7, 2^63 - 1, 2^63, 2^64 - 1,
\* 2^64, 2^64 + 7, 10^22 - 1, and the negative numbers -1, -7, -2^15 - 1,
\* -2^31 - 1, -2^63, -2^63 - 1, -2^64
TextsOutOfRange ==
    {<<"3","2","7","6","8">>, <<"6","5","5","3","5">>, <<"6","5","5","3","6">>,
     <<"2","1","4","7","4","8","3","6","4","7">>,
     <<"2","1","4","7","4","8","3","6","4","8">>,
     <<"4","2","9","4","9","6","7","2","9","5">>,
     <<"4","2","9","4","9","6","7","2","9","6">>,
     <<"4","2","9","4","9","6","7","3","0","3">>,
     <<"9","2","2","3","3","7","2","0","3","6","8","5","4","7","7","5","8","0","7">>,
     <<"9","2","2","3","3","7","2","0","3","6","8","5","4","7","7","5","8","0","8">>,
     <<"1","8","4","4","6","7","4","4","0","7","3","7","0","9","5","5","1","6","1","5">>,
     <<"1","8","4","4","6","7","4","4","0","7","3","7","0","9","5","5","1","6","1","6">>,
     <<"1","8","4","4","6","7","4","4","0","7","3","7","0","9","5","5","1","6","2","3">>,
     <<"9","9","9","9","9","9","9","9","9","9","9","9","9","9","9","9","9","9","9","9","9","9">>,
     <<"-","1">>, <<"-","7">>, <<"-","3","2","7","6","9">>,
     <<"-","2","1","4","7","4","8","3","6","4","9">>,
     <<"-","9","2","2","3","3","7","2","0","3","6","8","5","4","7","7","5","8","0","8">>,
     <<"-","9","2","2","3","3","7","2","0","3","6","8","5","4","7","7","5","8","0","9">>,
     <<"-","1","8","4","4","6","7","4","4","0","7","3","7","0","9","5","5","1","6","1","6">>}

\* the texts of the integer columns
NumberTexts == TextsWithoutNumber \cup TextsInRange \cup TextsOutOfRange

\* the columns fromFields converts to integers (f[0], f[9], f[25], f[27],
\* f[29], f[30] of the code): unique key, zip, council district, BBL, X, Y
IntegerColumns == {1, 10, 26, 28, 30, 31}

\* the fields of a row of 43 columns whose integer columns in cols hold the
\* text t and whose other columns are empty
FieldsWith(cols, t) == [k \in 1..43 |-> IF k \in cols THEN t ELSE <<>>]

\* ServiceRequest::fromFields entered with such a row, on a record that is
\* as its constructor left it: the text in every integer column, or in one
\* of them
FromFieldsCalls ==
    {[fn |-> "fromFields", text |-> t, cols |-> cols,
      fields |-> FieldsWith(cols, t), done |-> FALSE,
      ok |-> FALSE, rec |-> ServiceRequestDefault] :
        t \in NumberTexts,
        cols \in {IntegerColumns} \cup {{c} : c \in IntegerColumns}}

\* CsvReader::readChunk entered on a reader that open(path) has just
\* returned from: k is the next line of unread that std::getline reads
ReadChunkCalls ==
    {[fn |-> "readChunk", path |-> p, ok |-> CsvReader_open(FileAt(p)).ok,
      unread |-> CsvReader_open(FileAt(p)).unread, k |-> 1,
      acc |-> [total |-> CsvReader_open(FileAt(p)).total,
               skipped |-> CsvReader_open(FileAt(p)).skipped,
               handed |-> <<>>],
      done |-> FALSE, ret |-> 0] : p \in Paths}

\* lines after the header of the files readAll is called on
ReadAllRows == 3

\* the files readAll is called on: every line after the header is an
\* accepted row (A, B, or C with its empty columns) or a short one
ReadAllPaths ==
    {<<"rows">> \o names :
        names \in [1..ReadAllRows -> {"A", "B", "C", "Short"}]}

\* CsvReader::readAll(out) entered with an empty vector on a reader that
\* open(path) has just returned from
ReadAllCalls ==
    {[fn |-> "readAll", path |-> p, done |-> FALSE, out |-> <<>>,
      log |-> <<>>, skipped |-> 0] : p \in ReadAllPaths}

\* the DateTime values compared: every field at a small value or at the
\* largest its type holds, valid or not
DateTimes ==
    [year : {2015, 65535}, month : {1, 255}, day : {1, 255},
     hour : {0, 255}, minute : {0, 255}, second : {0, 255}, valid : {TRUE}]
    \cup {DateTimeDefault, [DateTimeDefault EXCEPT !.year = 2015]}

\* what the five operators gave, before they were called
NoComparison ==
    [eq |-> FALSE, lt |-> FALSE, le |-> FALSE, gt |-> FALSE, ge |-> FALSE]

\* a and b about to be compared by the two implementations of the operators
CompareCalls ==
    {[fn |-> "compare", a |-> a, b |-> b, ran |-> {},
      packed |-> NoComparison, byField |-> NoComparison] :
        a \in DateTimes, b \in DateTimes}

----------------------------------------------------------------------------
(* The library functions called on their own: state machine                *)

\* none of the three programs runs
NoProgram ==
    /\ variant = "library"
    /\ records_ = <<>>
    /\ epoch = 0
    /\ skipped_ = 0
    /\ total_ = 0
    /\ loadRet = -1
    /\ result = [ptrs |-> <<>>, at |-> 0]
    /\ records = <<>>
    /\ lineCount = 0
    /\ skipCount = 0
    /\ results = <<>>
    /\ g_records = <<>>
    /\ rowlog = <<>>
    /\ last = [op |-> "none"]
    /\ loads = 0

InitCalls ==
    /\ NoProgram
    /\ call \in DecoderCalls \cup ParseCalls \cup CompareCalls
                \cup FromFieldsCalls \cup ReadChunkCalls \cup ReadAllCalls

\* one pass of the for loop of CsvReader::parseLine
ParseLine_Step ==
    /\ call.fn = "parseLine" /\ ~call.done
    /\ call.st.i <= Len(call.line)
    /\ call' = [call EXCEPT !.st = parseLineStep(call.line, @, @.i)]
    /\ UNCHANGED storeVars

\* the return of parseLine as it would be if a field whose quote was never
\* closed were dropped
ParseLine_Return_dropOpenQuote ==
    /\ call.fn = "parseLine" /\ ~call.done
    /\ call.st.i > Len(call.line)
    /\ call' = [call EXCEPT
                   !.st.fields = IF call.st.inQuotes THEN @
                                 ELSE Append(@, call.st.current),
                   !.done = TRUE]
    /\ UNCHANGED storeVars

\* CsvReader::parseLine: the loop is over, the field in progress is pushed
ParseLine_Return ==
    /\ call.fn = "parseLine" /\ ~call.done
    /\ call.st.i > Len(call.line)
    /\ call' = [call EXCEPT !.st.fields = Append(@, call.st.current),
                            !.done = TRUE]
    /\ UNCHANGED storeVars

\* one pass of the for loop of NYC311Analyzer::parseCSVLine
ParseCSVLine_Step ==
    /\ call.fn = "parseCSVLine" /\ ~call.done
    /\ call.st.i <= Len(call.line)
    /\ call' = [call EXCEPT !.st = parseCSVLineStep(call.line, @, @.i)]
    /\ UNCHANGED storeVars

\* NYC311Analyzer::parseCSVLine: the loop is over, the field in progress is
\* cleaned and pushed
ParseCSVLine_Return ==
    /\ call.fn = "parseCSVLine" /\ ~call.done
    /\ call.st.i > Len(call.line)
    /\ call' = [call EXCEPT
                   !.st.fields = Append(@, cleanString(call.st.current)),
                   !.done = TRUE]
    /\ UNCHANGED storeVars

\* one pass of the for loop of the free function parseCSVLine
G_ParseCSVLine_Step ==
    /\ call.fn = "g_parseCSVLine" /\ ~call.done
    /\ call.st.i <= Len(call.line)
    /\ call' = [call EXCEPT !.st = g_parseCSVLineStep(call.line, @, @.i)]
    /\ UNCHANGED storeVars

\* the free function parseCSVLine: the loop is over, the field in progress
\* is cleaned and pushed
G_ParseCSVLine_Return ==
    /\ call.fn = "g_parseCSVLine" /\ ~call.done
    /\ call.st.i > Len(call.line)
    /\ call' = [call EXCEPT
                   !.st.fields = Append(@, g_cleanString(call.st.current)),
                   !.done = TRUE]
    /\ UNCHANGED storeVars

\* DateTime::parse(s) returns
DateTime_Parse ==
    /\ call.fn = "DateTime_parse" /\ ~call.done
    /\ call' = [call EXCEPT !.out = DateTime_parse(call.text), !.done = TRUE]
    /\ UNCHANGED storeVars

\* toString() is called on the value parse returned
DateTime_ToString ==
    /\ call.fn = "DateTime_parse" /\ call.done /\ ~call.shown
    /\ call' = [call EXCEPT !.str = DateTime_toString(call.out),
                            !.shown = TRUE]
    /\ UNCHANGED storeVars

\* ServiceRequest::fromFields(out, f) returns
FromFields_Call ==
    /\ call.fn = "fromFields" /\ ~call.done
    /\ call' = [call EXCEPT !.ok = fromFields(call.rec, call.fields).ok,
                            !.rec = fromFields(call.rec, call.fields).rec,
                            !.done = TRUE]
    /\ UNCHANGED storeVars

\* CsvReader::readAll(out) returns
ReadAll_Call ==
    /\ call.fn = "readAll" /\ ~call.done
    /\ \E r \in {CsvReader_readAll(CsvReader_open(FileAt(call.path)),
                                   call.out)} :
           call' = [call EXCEPT !.out = r.out, !.log = r.log,
                                !.skipped = r.skipped, !.done = TRUE]
    /\ UNCHANGED storeVars

\* one pass of the while loop of CsvReader::readChunk
ReadChunk_Line ==
    /\ call.fn = "readChunk" /\ ~call.done
    /\ call.ok /\ call.k <= Len(call.unread)
    /\ call' = [call EXCEPT !.acc = readChunkLine(@, call.unread[call.k]),
                            !.k = @ + 1]
    /\ UNCHANGED storeVars

\* CsvReader::readChunk returns: 0 when the file is not open, total_ when
\* std::getline finds no more line
ReadChunk_Return ==
    /\ call.fn = "readChunk" /\ ~call.done
    /\ ~call.ok \/ call.k > Len(call.unread)
    /\ call' = [call EXCEPT !.ret = IF ~call.ok THEN 0 ELSE call.acc.total,
                            !.done = TRUE]
    /\ UNCHANGED storeVars

\* a == b, a < b, a <= b, a > b, a >= b with the operators that compare
\* the packed keys
DateTime_Compare ==
    /\ call.fn = "compare" /\ "packed" \notin call.ran
    /\ call' = [call EXCEPT
                   !.packed = [eq |-> DateTime_eq(call.a, call.b),
                               lt |-> DateTime_lt(call.a, call.b),
                               le |-> DateTime_le(call.a, call.b),
                               gt |-> DateTime_gt(call.a, call.b),
                               ge |-> DateTime_ge(call.a, call.b)],
                   !.ran = @ \cup {"packed"}]
    /\ UNCHANGED storeVars

\* the same with the operators that compare field by field
DateTimeF_Compare ==
    /\ call.fn = "compare" /\ "byField" \notin call.ran
    /\ call' = [call EXCEPT
                   !.byField = [eq |-> DateTimeF_eq(call.a, call.b),
                                lt |-> DateTimeF_lt(call.a, call.b),
                                le |-> DateTimeF_le(call.a, call.b),
                                gt |-> DateTimeF_gt(call.a, call.b),
                                ge |-> DateTimeF_ge(call.a, call.b)],
                   !.ran = @ \cup {"byField"}]
    /\ UNCHANGED storeVars

NextCalls ==
    \/ ParseLine_Step
    \/ ParseLine_Return
    \/ ParseCSVLine_Step
    \/ ParseCSVLine_Return
    \/ G_ParseCSVLine_Step
    \/ G_ParseCSVLine_Return
    \/ DateTime_Parse
    \/ DateTime_ToString
    \/ FromFields_Call
    \/ ReadAll_Call
    \/ ReadChunk_Line
    \/ ReadChunk_Return
    \/ DateTime_Compare
    \/ DateTimeF_Compare

SpecCalls == InitCalls /\ [][NextCalls]_vars

InitDecoders ==
    /\ NoProgram
    /\ call \in DecoderCalls

NextDecoders ==
    \/ ParseLine_Step
    \/ ParseLine_Return
    \/ ParseCSVLine_Step
    \/ ParseCSVLine_Return
    \/ G_ParseCSVLine_Step
    \/ G_ParseCSVLine_Return

\* a decoder that was called keeps running: nothing but its own loop
\* decides when it returns
FairDecoders == InitDecoders /\ [][NextDecoders]_vars /\ WF_vars(NextDecoders)

----------------------------------------------------------------------------
(* A caller that repeats a query                                           *)

\* what the query that returned last handed to its caller
Answer == IF variant = "DataStore" THEN result.ptrs ELSE results

\* the caller keeps the answer of the query that has just returned, to
\* compare it with the answer the same query gives later
Caller_Keep ==
    /\ call.fn = "none"
    /\ last.op \in {"filterByCreatedDateRange", "filterByDateRange",
                    "filterByBorough", "filterByAgency",
                    "filterByComplaintType", "filterByStatus", "filterByZip",
                    "filterByLatLonBox", "filterByCouncilDistrict"}
    /\ call' = [fn |-> "kept", op |-> last.op, arg |-> last.arg,
                answer |-> Answer, loads |-> loads]
    /\ UNCHANGED storeVars

\* the files the stores are loaded from: none, the row A, the rows A and B
\* in their two orders
RepeatPaths ==
    {p \in Paths : p \in {<<"missing">>, <<"rows", "A">>,
                           <<"rows", "A", "B">>, <<"rows", "B", "A">>}}

InitRepeat ==
    /\ Init
    /\ variant \in {"DataStore", "NYC311Analyzer"}

NextRepeat ==
    \/ \E path \in RepeatPaths : DS_Load(path)
    \/ \E start \in QueryDates, end \in QueryDates :
           DS_FilterByCreatedDateRange(start, end)
    \/ \E borough \in QueryBoroughs : DS_FilterByBorough(borough)
    \/ \E agency \in QueryAgencies : DS_FilterByAgency(agency)
    \/ \E keyword \in QueryKeywords : DS_FilterByComplaintType(keyword)
    \/ \E status \in QueryStatuses : DS_FilterByStatus(status)
    \/ \E zip \in QueryZips : DS_FilterByZip(zip)
    \/ \E box \in QueryBoxes : DS_FilterByLatLonBox(box)
    \/ \E district \in QueryDistricts : DS_FilterByCouncilDistrict(district)
    \/ \E path \in RepeatPaths : An_LoadData(path)
    \/ \E start \in QueryDates, end \in QueryDates :
           An_FilterByDateRange(start, end)
    \/ \E borough \in QueryBoroughs : An_FilterByBorough(borough)
    \/ \E agency \in QueryAgencies : An_FilterByAgency(agency)
    \/ \E keyword \in QueryKeywords : An_FilterByComplaintType(keyword)
    \/ \E status \in QueryStatuses : An_FilterByStatus(status)
    \/ \E zip \in QueryZips : An_FilterByZip(zip)
    \/ \E box \in QueryBoxes : An_FilterByLatLonBox(box)
    \/ Caller_Keep

SpecRepeat == InitRepeat /\ [][NextRepeat]_vars

----------------------------------------------------------------------------
(* Vocabulary of the properties                                            *)

DSQueryOps ==
    {"filterByCreatedDateRange", "filterByBorough", "filterByAgency",
     "filterByComplaintType", "filterByStatus", "filterByZip",
     "filterByLatLonBox", "filterByCouncilDistrict"}

AnQueryOps ==
    {"filterByDateRange", "filterByBorough", "filterByAgency",
     "filterByComplaintType", "filterByStatus", "filterByZip",
     "filterByLatLonBox"}

\* the file of the last load
LastFile == FileAt(last.path)

\* the elements of the set S of positions, in increasing order
InOrder(S) ==
    [k \in 1..Cardinality(S) |->
        CHOOSE i \in S : Cardinality({j \in S : j < i}) = k - 1]

\* text with every upper-case letter folded to lower case
Folded(s) == [i \in 1..Len(s) |-> tolower(s[i])]

EqualIgnoringCase(a, b) == Folded(a) = Folded(b)

ContainsIgnoringCase(text, part) ==
    \E k \in 0..(Len(text) - Len(part)) :
        SubSeq(Folded(text), k + 1, k + Len(part)) = Folded(part)

\* the date and time of a valid value, most significant unit first
Calendar(d) == <<d.year, d.month, d.day, d.hour, d.minute, d.second>>

\* a <= b in the order where the invalid value sorts before every valid
\* one and valid values are ordered lexicographically
NotAfter(a, b) ==
    IF ~a.valid THEN TRUE
    ELSE IF ~b.valid THEN FALSE
    ELSE \/ Calendar(a) = Calendar(b)
         \/ \E k \in 1..6 : /\ Calendar(a)[k] < Calendar(b)[k]
                            /\ \A m \in 1..(k - 1) :
                                   Calendar(a)[m] = Calendar(b)[m]

\* the predicate of the date-range filter
InDateRange(r, start, end) ==
    r.createdDate.valid /\ NotAfter(start, r.createdDate)
    /\ NotAfter(r.createdDate, end)

\* the predicate of the filter op with the argument arg, on the record r
Satisfies(op, arg, r) ==
    CASE op \in {"filterByCreatedDateRange", "filterByDateRange"} ->
             InDateRange(r, arg[1], arg[2])
      [] op = "filterByBorough" -> EqualIgnoringCase(r.borough, arg)
      [] op = "filterByAgency" -> EqualIgnoringCase(r.agency, arg)
      [] op = "filterByComplaintType" ->
             ContainsIgnoringCase(r.complaintType, arg)
      [] op = "filterByStatus" -> EqualIgnoringCase(r.status, arg)
      [] op = "filterByZip" -> r.incidentZip = arg
      [] op = "filterByLatLonBox" ->
             /\ arg.minLat <= r.latitude /\ r.latitude <= arg.maxLat
             /\ arg.minLon <= r.longitude /\ r.longitude <= arg.maxLon
      [] op = "filterByCouncilDistrict" -> r.councilDistrict = arg

\* the positions of the records of recs that satisfy the last query
Matching(recs) ==
    InOrder({i \in 1..Len(recs) : Satisfies(last.op, last.arg, recs[i])})

----------------------------------------------------------------------------
(* C1                                                                      *)

\* C1: whatever the filter, the store and the argument, the result holds
\* exactly the stored records that satisfy the filter's predicate, one entry
\* per stored occurrence, in the order of the store.
C1_FilterResultExact ==
    /\ (variant = "DataStore" /\ last.op \in DSQueryOps) =>
           result.ptrs = [k \in 1..Len(Matching(records_)) |->
                              <<epoch, Matching(records_)[k]>>]
    /\ (variant = "NYC311Analyzer" /\ last.op \in AnQueryOps) =>
           results = [k \in 1..Len(Matching(records)) |->
                          records[Matching(records)[k]]]

\* filterByZip(10001) on a store of one record with zip 10001 followed by
\* one with zip 10002 has returned the first only
C1_Witness ==
    /\ variant = "DataStore"
    /\ last.op = "filterByZip" /\ last.arg = <<0, 10001>>
    /\ Len(records_) = 2
    /\ records_[1].incidentZip = <<0, 10001>>
    /\ records_[2].incidentZip = <<0, 10002>>
    /\ result.ptrs = <<(<<epoch, 1>>)>>

----------------------------------------------------------------------------
(* C2, C3, C4                                                              *)

\* the positions of the non-blank lines after the first line of the file
RowsOf(file) ==
    InOrder({k \in 2..Len(file.lines) : file.lines[k] # <<>>})

\* the rows of the log that were rejected
Rejected(log) == {k \in 1..Len(log) : ~log[k].ok}

\* C2: in a load of a file that opens, a rejected row never stops the rows
\* after it: every non-blank line after the header is decoded and is either
\* appended to the store or counted as malformed, so that at the end
\* rows seen = records stored + malformed rows.
C2_RejectedRowNeverStopsLoad ==
    /\ (variant = "DataStore" /\ last.op = "load" /\ LastFile.open) =>
           /\ Len(rowlog) = Len(RowsOf(LastFile))
           /\ \A k \in 1..Len(rowlog) :
                  rowlog[k].nfields =
                      Len(parseLine(LastFile.lines[RowsOf(LastFile)[k]]))
           /\ total_ = Len(rowlog)
           /\ skipped_ = Cardinality(Rejected(rowlog))
           /\ total_ = Len(records_) + skipped_
    /\ (variant = "NYC311Analyzer" /\ last.op = "loadData"
        /\ LastFile.open) =>
           /\ Len(rowlog) = Len(RowsOf(LastFile))
           /\ \A k \in 1..Len(rowlog) :
                  rowlog[k].nfields =
                      Len(parseCSVLine(LastFile.lines[RowsOf(LastFile)[k]]))
           /\ lineCount = Len(rowlog)
           /\ skipCount = Cardinality(Rejected(rowlog))
           /\ lineCount = (Len(records) - last.before) + skipCount

\* a load has gone past a rejected row and stored the row after it
C2_Witness ==
    /\ variant = "DataStore" /\ last.op = "load"
    /\ Len(rowlog) = 2 /\ ~rowlog[1].ok /\ rowlog[2].ok
    /\ skipped_ = 1 /\ Len(records_) = 1

\* the records of the accepted rows of the file, in the order of their
\* lines; decode is the line decoder of the loader
AcceptedRows(file, decode(_)) ==
    IF ~file.open THEN <<>>
    ELSE LET S == InOrder({k \in 2..Len(file.lines) :
                              /\ file.lines[k] # <<>>
                              /\ Len(decode(file.lines[k])) >= 43})
         IN  [j \in 1..Len(S) |->
                 fromFields(ServiceRequestDefault,
                            decode(file.lines[S[j]])).rec]

\* C3: after a load the store is the sequence of the accepted rows in the
\* order of their lines in the file, and a row that repeats a unique key is
\* stored like any other.
C3_StoreIsAcceptedRowsInFileOrder ==
    /\ (variant = "DataStore" /\ last.op = "load") =>
           records_ = AcceptedRows(LastFile, parseLine)
    /\ (variant = "NYC311Analyzer" /\ last.op = "loadData") =>
           records = AcceptedRows(LastFile, parseCSVLine)

\* what holds of NYC311Analyzer::loadData: the records a load appends are
\* the accepted rows of its file in order, behind those already stored
C3_AppendedAreAcceptedRowsInFileOrder ==
    (variant = "NYC311Analyzer" /\ last.op = "loadData") =>
        SubSeq(records, last.before + 1, Len(records)) =
            AcceptedRows(LastFile, parseCSVLine)

\* two accepted rows with the same unique key are both in the store
C3_DuplicateKeyStored ==
    /\ variant = "DataStore" /\ last.op = "load"
    /\ Len(records_) = 2
    /\ records_[1].uniqueKey = records_[2].uniqueKey
    /\ records_[1] # records_[2]

\* C4: fromFields rejects every field list of fewer than 43 entries and
\* then assigns no attribute of the record, accepts every list of 43 or
\* more entries, and the loader never stores a rejected record: the records
\* a load stores are those of the accepted rows.
C4_FromFieldsThreshold ==
    /\ \A k \in 1..Len(rowlog) :
           /\ rowlog[k].nfields < 43 =>
                  ~rowlog[k].ok /\ ~rowlog[k].changed
           /\ rowlog[k].nfields >= 43 => rowlog[k].ok
           /\ ~rowlog[k].ok => rowlog[k].stored = 0
    /\ (variant = "DataStore") =>
           {rowlog[k].stored : k \in 1..Len(rowlog)} \ {0}
               = 1..Len(records_)
    /\ (variant = "NYC311Analyzer" /\ last.op = "loadData") =>
           {rowlog[k].stored : k \in 1..Len(rowlog)} \ {0}
               = (last.before + 1)..Len(records)

\* a row of 42 fields reached fromFields on an object that held the
\* attributes of the row before it, and a row of exactly 43 fields and a
\* row of one field were seen as well
C4_Witness ==
    /\ variant = "DataStore"
    /\ Len(rowlog) = 2
    /\ rowlog[1].nfields = 44 /\ rowlog[1].ok
    /\ rowlog[2].nfields = 42 /\ ~rowlog[2].ok
    /\ records_[1] # ServiceRequestDefault
    /\ Len(records_) = 1

----------------------------------------------------------------------------
(* C5, C6, C7, C8                                                          *)

\* the positions at which the last load pushed the rows it accepted, in
\* the order of the rows
StoredByLastLoad ==
    LET kept == SelectSeq(rowlog, LAMBDA e : e.ok)
    IN  [j \in 1..Len(kept) |-> kept[j].stored]

\* C5: re-loading clears and replaces the contents of the store: after any
\* sequence of load calls the store holds exactly the records of the most
\* recent load and none of an earlier one.
C5_ReloadReplacesStore ==
    /\ (variant = "DataStore" /\ last.op = "load") =>
           StoredByLastLoad = [j \in 1..Len(records_) |-> j]
    /\ (variant = "NYC311Analyzer" /\ last.op = "loadData") =>
           StoredByLastLoad = [j \in 1..Len(records) |-> j]

\* C6: a load whose file cannot be opened, whatever was loaded before,
\* reports zero records loaded (DataStore::load returns 0 and the record
\* count afterwards is 0) and reads no row.
C6_UnopenableFileLoadsNothing ==
    /\ (variant = "DataStore" /\ last.op = "load" /\ ~LastFile.open) =>
           /\ loadRet = 0
           /\ Len(records_) = 0
           /\ rowlog = <<>>
           /\ total_ = 0 /\ skipped_ = 0
    /\ (variant = "NYC311Analyzer" /\ last.op = "loadData"
        /\ ~LastFile.open) =>
           /\ rowlog = <<>>
           /\ Len(records) = last.before

\* a DataStore that held records was told to load a file that cannot be
\* opened
C6_Witness ==
    /\ variant = "DataStore" /\ last.op = "load" /\ ~LastFile.open
    /\ last.before > 0
    /\ loadRet = 0

\* C7: no query changes the store: a filter call leaves the sequence of
\* records (length, order, every attribute) and the malformed-row counter
\* as they were, and so does any sequence of filter calls.
C7_QueriesLeaveStoreUnchanged ==
    [][(last'.op \in DSQueryOps \cup AnQueryOps) =>
           /\ records_' = records_
           /\ skipped_' = skipped_ /\ total_' = total_
           /\ records' = records
           /\ skipCount' = skipCount]_vars

\* a query has returned matches from a store that holds a record and has
\* counted a malformed row
C7_Witness ==
    /\ variant = "DataStore" /\ last.op \in DSQueryOps
    /\ Len(records_) >= 1 /\ skipped_ >= 1
    /\ result.ptrs # <<>>

\* the pointer p refers to an element of the vector whose elements were
\* last destroyed at epoch ep and that holds the elements recs
LiveIn(p, ep, recs) == p[1] = ep /\ p[2] \in 1..Len(recs)

\* C8: every pointer of a QueryResult returned by a DataStore query refers
\* to a record held in the store as long as load() has not been called
\* again; further queries never invalidate it; after the first subsequent
\* load(), successful or not, it refers to no live record.
C8_PointersLiveUntilNextLoad ==
    /\ [](variant = "DataStore" =>
             \A k \in 1..Len(result.ptrs) :
                 /\ result.at = loads =>
                        LiveIn(result.ptrs[k], epoch, records_)
                 /\ result.at < loads =>
                        ~LiveIn(result.ptrs[k], epoch, records_))
    /\ [][(variant = "DataStore" /\ last'.op \in DSQueryOps) =>
             \A k \in 1..Len(result.ptrs) :
                 LiveIn(result.ptrs[k], epoch, records_) =>
                     LiveIn(result.ptrs[k], epoch', records_')]_vars

\* a QueryResult of two pointers was held while load() was called on a file
\* that has as many accepted rows as the one before
C8_Witness ==
    /\ variant = "DataStore" /\ last.op = "load"
    /\ Len(result.ptrs) = 2 /\ result.at < loads
    /\ Len(records_) = 2

----------------------------------------------------------------------------
(* C9, C10                                                                 *)

\* C9: a record whose createdDate is the invalid value is never in the
\* result of a date-range query, whatever the bounds, valid or not; a record
\* with a valid createdDate is in the result exactly when
\* start <= createdDate <= end, both ends included.
C9_DateRangeExcludesInvalid ==
    /\ (variant = "DataStore" /\ last.op = "filterByCreatedDateRange") =>
           \A i \in 1..Len(records_) :
               (\E k \in 1..Len(result.ptrs) : result.ptrs[k] = <<epoch, i>>)
               <=> InDateRange(records_[i], last.arg[1], last.arg[2])
    /\ (variant = "global" /\ last.op = "g_filterByCreatedDateRange") =>
           \A i \in 1..Len(g_records) :
               (\E k \in 1..Len(results) : results[k] = g_records[i])
               <=> InDateRange(g_records[i], last.arg[1], last.arg[2])

\* what holds of DataStore::filterByCreatedDateRange alone
C9_DataStoreDateRange ==
    (variant = "DataStore" /\ last.op = "filterByCreatedDateRange") =>
        \A i \in 1..Len(records_) :
            (\E k \in 1..Len(result.ptrs) : result.ptrs[k] = <<epoch, i>>)
            <=> InDateRange(records_[i], last.arg[1], last.arg[2])

\* C10: the loader discards exactly one line, the first, as the header and
\* treats every line after it as data, so that a file of one header line
\* and no data line loads to a store of size 0 with a malformed-row count
\* of 0.
C10_OneHeaderLineDiscarded ==
    /\ (variant = "DataStore" /\ last.op = "load" /\ LastFile.open) =>
           /\ Len(rowlog) = Len(RowsOf(LastFile))
           /\ Len(LastFile.lines) = 1 =>
                  Len(records_) = 0 /\ skipped_ = 0
    /\ (variant = "NYC311Analyzer" /\ last.op = "loadData"
        /\ LastFile.open) =>
           /\ Len(rowlog) = Len(RowsOf(LastFile))
           /\ Len(LastFile.lines) = 1 =>
                  Len(records) = 0 /\ skipCount = 0

\* what holds of both loaders: the first line is never decoded as a row,
\* every non-blank line after it is, and a file of one header line adds no
\* record and counts no malformed row
C10_HeaderNeverARow ==
    /\ (variant = "DataStore" /\ last.op = "load" /\ LastFile.open) =>
           /\ Len(rowlog) = Len(RowsOf(LastFile))
           /\ Len(LastFile.lines) = 1 =>
                  Len(records_) = 0 /\ skipped_ = 0
    /\ (variant = "NYC311Analyzer" /\ last.op = "loadData"
        /\ LastFile.open) =>
           /\ Len(rowlog) = Len(RowsOf(LastFile))
           /\ Len(LastFile.lines) = 1 =>
                  Len(records) = last.before /\ skipCount = 0

----------------------------------------------------------------------------
(* C11                                                                     *)

\* a blank line of a file with Unix line endings (nothing before the LF) or
\* with Windows line endings (a CR before the LF)
BlankLine(line) == line = <<>> \/ line = <<CR>>

\* the positions of the lines after the header that are not blank
DataRowsOf(file) ==
    InOrder({k \in 2..Len(file.lines) : ~BlankLine(file.lines[k])})

\* C11: every blank data line, of a Unix file and of a CR LF file alike, is
\* skipped by the loader: it is not decoded as a row, raises neither the
\* processed-row counter nor the malformed-row counter and adds no record.
C11_BlankLinesSkipped ==
    /\ (variant = "DataStore" /\ last.op = "load" /\ LastFile.open) =>
           /\ Len(rowlog) = Len(DataRowsOf(LastFile))
           /\ total_ = Len(DataRowsOf(LastFile))
           /\ skipped_ = total_ - Len(records_)
    /\ (variant = "NYC311Analyzer" /\ last.op = "loadData"
        /\ LastFile.open) =>
           /\ Len(rowlog) = Len(DataRowsOf(LastFile))
           /\ lineCount = Len(DataRowsOf(LastFile))
    /\ (variant = "global" /\ last.op = "g_loadData" /\ LastFile.open) =>
           Len(rowlog) = Len(DataRowsOf(LastFile))

\* what holds of CsvReader::readAll and NYC311Analyzer::loadData: a line
\* that is empty once the LF is taken off is skipped and counted nowhere
C11_EmptyLinesSkipped ==
    /\ (variant = "DataStore" /\ last.op = "load" /\ LastFile.open) =>
           /\ Len(rowlog) = Len(RowsOf(LastFile))
           /\ total_ = Len(RowsOf(LastFile))
    /\ (variant = "NYC311Analyzer" /\ last.op = "loadData"
        /\ LastFile.open) =>
           /\ Len(rowlog) = Len(RowsOf(LastFile))
           /\ lineCount = Len(RowsOf(LastFile))

----------------------------------------------------------------------------
(* C15, C16                                                                *)

\* the query q written in every mix of upper and lower case
CaseVariants(q) ==
    {s \in [1..Len(q) -> UNION {{tolower(q[i]), toupper(q[i])} :
                                   i \in 1..Len(q)}] :
        \A i \in 1..Len(q) : s[i] \in {tolower(q[i]), toupper(q[i])}}

\* the positions of the records whose borough equals q once both are put
\* in lower case
BoroughMatches(recs, q) ==
    InOrder({i \in 1..Len(recs) : Folded(recs[i].borough) = Folded(q)})

\* the positions of the records whose complaintType contains k as a
\* contiguous run of characters once both are put in lower case
ComplaintMatches(recs, k) ==
    InOrder({i \in 1..Len(recs) :
                \E p \in 0..(Len(recs[i].complaintType) - Len(k)) :
                    \A j \in 1..Len(k) :
                        tolower(recs[i].complaintType[p + j]) = tolower(k[j])})

\* C15: filterByBorough(q) returns exactly the stored records whose borough
\* equals q after ASCII lowercasing of both, for every q including the
\* empty string (which selects the records whose borough is empty), and
\* the same query in any other letter case returns the same result.
C15_BoroughFilterExact ==
    /\ (variant = "DataStore" /\ last.op = "filterByBorough") =>
           /\ result.ptrs =
                  [k \in 1..Len(BoroughMatches(records_, last.arg)) |->
                      <<epoch, BoroughMatches(records_, last.arg)[k]>>]
           /\ \A q \in CaseVariants(last.arg) :
                  DataStore_filterByBorough(records_, q)
                      = BoroughMatches(records_, last.arg)
    /\ (variant = "NYC311Analyzer" /\ last.op = "filterByBorough") =>
           /\ results =
                  [k \in 1..Len(BoroughMatches(records, last.arg)) |->
                      records[BoroughMatches(records, last.arg)[k]]]
           /\ \A q \in CaseVariants(last.arg) :
                  NYC311Analyzer_filterByBorough(records, q)
                      = BoroughMatches(records, last.arg)
    /\ (variant = "global" /\ last.op = "g_filterByBorough") =>
           /\ results =
                  [k \in 1..Len(BoroughMatches(g_records, last.arg)) |->
                      g_records[BoroughMatches(g_records, last.arg)[k]]]
           /\ \A q \in CaseVariants(last.arg) :
                  g_filterByBorough(g_records, q)
                      = BoroughMatches(g_records, last.arg)

\* what holds of the free function filterByBorough: for a query that is not
\* empty it returns the records whose borough equals it in any letter case
C15_NonEmptyBoroughQueryExact ==
    (variant = "global" /\ last.op = "g_filterByBorough"
     /\ last.arg # <<>>) =>
        /\ results =
               [k \in 1..Len(BoroughMatches(g_records, last.arg)) |->
                   g_records[BoroughMatches(g_records, last.arg)[k]]]
        /\ \A q \in CaseVariants(last.arg) :
               g_filterByBorough(g_records, q)
                   = BoroughMatches(g_records, last.arg)

\* C16: filterByComplaintType(k) returns exactly the stored records whose
\* complaintType contains k as a contiguous substring after ASCII
\* lowercasing of both; an empty k returns every stored record, and a k
\* longer than a record's complaintType never matches that record.
C16_ComplaintFilterExact ==
    /\ (variant = "DataStore" /\ last.op = "filterByComplaintType") =>
           /\ result.ptrs =
                  [k \in 1..Len(ComplaintMatches(records_, last.arg)) |->
                      <<epoch, ComplaintMatches(records_, last.arg)[k]>>]
           /\ last.arg = <<>> =>
                  result.ptrs = [i \in 1..Len(records_) |-> <<epoch, i>>]
           /\ \A i \in 1..Len(records_) :
                  Len(last.arg) > Len(records_[i].complaintType) =>
                      \A k \in 1..Len(result.ptrs) :
                          result.ptrs[k] # <<epoch, i>>
    /\ (variant = "NYC311Analyzer" /\ last.op = "filterByComplaintType") =>
           /\ results =
                  [k \in 1..Len(ComplaintMatches(records, last.arg)) |->
                      records[ComplaintMatches(records, last.arg)[k]]]
           /\ last.arg = <<>> => results = records
           /\ \A i \in 1..Len(records) :
                  Len(last.arg) > Len(records[i].complaintType) =>
                      \A k \in 1..Len(results) : results[k] # records[i]
    /\ (variant = "global" /\ last.op = "g_searchByComplaint") =>
           /\ results =
                  [k \in 1..Len(ComplaintMatches(g_records, last.arg)) |->
                      g_records[ComplaintMatches(g_records, last.arg)[k]]]
           /\ last.arg = <<>> => results = g_records
           /\ \A i \in 1..Len(g_records) :
                  Len(last.arg) > Len(g_records[i].complaintType) =>
                      \A k \in 1..Len(results) : results[k] # g_records[i]

\* a keyword in upper case was found in the middle of one complaint type,
\* written in lower case, and not in another that is shorter than it
C16_Witness ==
    /\ variant = "DataStore" /\ last.op = "filterByComplaintType"
    /\ last.arg = <<"N","O","I","S">>
    /\ Len(records_) = 2
    /\ records_[1].complaintType = <<"I","c","e",Comma,"n","o","i","s","y">>
    /\ records_[2].complaintType = <<>>
    /\ result.ptrs = <<(<<epoch, 1>>)>>

----------------------------------------------------------------------------
(* C12, C13, C14                                                           *)

\* a line decoder is running or has returned
IsDecoderCall == call.fn \in Decoders

\* a line decoder has returned
DecoderReturned == call.fn \in Decoders /\ call.done

\* how many times the character c stands in the text s
CountIn(s, c) == Cardinality({i \in 1..Len(s) : s[i] = c})

\* how many times the character c stands in the fields f
CountInFields(f, c) ==
    Cardinality({ki \in (1..Len(f)) \X (1..(MaxLineLen + 1)) :
                    /\ ki[2] <= Len(f[ki[1]])
                    /\ f[ki[1]][ki[2]] = c})

\* the positions of the commas of the line
Commas(line) == {p \in 1..Len(line) : line[p] = Comma}

\* the commas of the line that stand outside quotes: an even number of
\* quote characters stands before them
UnquotedCommas(line) ==
    {p \in Commas(line) : CountIn(SubSeq(line, 1, p - 1), Quote) % 2 = 0}

\* the pieces of the line between its commas, in order
Pieces(line) ==
    [k \in 1..(Cardinality(Commas(line)) + 1) |->
        SubSeq(line,
               IF k = 1 THEN 1 ELSE InOrder(Commas(line))[k - 1] + 1,
               IF k = Cardinality(Commas(line)) + 1 THEN Len(line)
               ELSE InOrder(Commas(line))[k] - 1)]

\* the text s without its carriage returns
WithoutCR(s) == SelectSeq(s, LAMBDA c : c # CR)

\* C12: for every input line the decoder splits only at commas met in
\* unquoted state: the number of fields returned is 1 plus the number of
\* such commas, a comma met in quoted state is kept inside the current
\* field, and a line with no quote characters decodes to its
\* comma-separated pieces in order ("a,b,c" gives ["a","b","c"]).
C12_SplitsAtUnquotedCommas ==
    DecoderReturned =>
        /\ Len(call.st.fields) = 1 + Cardinality(UnquotedCommas(call.line))
        /\ CountInFields(call.st.fields, Comma) =
               Cardinality(Commas(call.line))
               - Cardinality(UnquotedCommas(call.line))
        /\ CountIn(call.line, Quote) = 0 =>
               call.st.fields = Pieces(call.line)

\* C12 as amended: the pieces of a line with no quote characters are
\* returned with their carriage returns removed
C12_SplitsAtUnquotedCommasDroppingCR ==
    DecoderReturned =>
        /\ Len(call.st.fields) = 1 + Cardinality(UnquotedCommas(call.line))
        /\ CountInFields(call.st.fields, Comma) =
               Cardinality(Commas(call.line))
               - Cardinality(UnquotedCommas(call.line))
        /\ CountIn(call.line, Quote) = 0 =>
               call.st.fields =
                   [k \in 1..Len(Pieces(call.line)) |->
                       WithoutCR(Pieces(call.line)[k])]

\* parseLine has decoded "a,b,c"
C12_Witness ==
    /\ call.fn = "parseLine" /\ call.done
    /\ call.line = <<"a", Comma, "b", Comma, "c">>
    /\ call.st.fields = <<(<<"a">>), (<<"b">>), (<<"c">>)>>

\* the number of doubled quotes the decoder meets in quoted state in the
\* line from position p on, when it is in quoted state at p exactly if
\* quoted: a quote followed by a quote in quoted state is a doubled quote
\* and takes two characters, any other quote changes the state
RECURSIVE DoubledQuotes(_, _, _)
DoubledQuotes(line, p, quoted) ==
    IF p > Len(line) THEN 0
    ELSE IF line[p] # Quote THEN DoubledQuotes(line, p + 1, quoted)
    ELSE IF quoted /\ p + 1 <= Len(line) /\ line[p + 1] = Quote
    THEN 1 + DoubledQuotes(line, p + 2, TRUE)
    ELSE DoubledQuotes(line, p + 1, ~quoted)

\* C13: for every input line, each doubled quote met in quoted state
\* appears as exactly one literal quote character in the field the decoder
\* returns, wherever in the field it stands (a lone quote emits nothing),
\* for CsvReader::parseLine and for parseCSVLine.
C13_DoubledQuoteReturnedAsOneQuote ==
    DecoderReturned =>
        CountInFields(call.st.fields, Quote)
            = DoubledQuotes(call.line, 1, FALSE)

\* the field f without one leading and one trailing quote character
StripQuotePair(f) ==
    SubSeq(f,
           IF f # <<>> /\ f[1] = Quote THEN 2 ELSE 1,
           IF Len(f) >= 2 /\ f[Len(f)] = Quote THEN Len(f) - 1
           ELSE IF Len(f) = 1 /\ f[1] # Quote THEN 1
           ELSE IF Len(f) = 1 THEN 0
           ELSE Len(f))

\* a pass of a decoder's loop, or its return, is being taken
DecoderPass == IsDecoderCall /\ ~call.done /\ call'.fn = call.fn

\* the pass meets the character c in quoted state (quoted) or not
Meets(c, quoted) ==
    /\ DecoderPass /\ call.st.i <= Len(call.line)
    /\ call.line[call.st.i] = c /\ call.st.inQuotes = quoted

\* the character after the one the pass meets is a quote
QuoteFollows ==
    call.st.i + 1 <= Len(call.line) /\ call.line[call.st.i + 1] = Quote

\* the pass pushes a field
PushesField == DecoderPass /\ call'.st.fields # call.st.fields

\* C13 as amended: each doubled quote met in quoted state is appended as
\* exactly one literal quote character to the field in progress and leaves
\* the decoder in quoted state; a lone quote in quoted state returns the
\* decoder to unquoted state and emits nothing.  CsvReader::parseLine
\* returns every field as it was built; parseCSVLine returns it without one
\* leading and one trailing quote character, where it has them.
C13_DoubledQuoteAppendedAsOneQuote ==
    [][/\ (Meets(Quote, TRUE) /\ QuoteFollows) =>
              /\ call'.st.current = Append(call.st.current, Quote)
              /\ call'.st.inQuotes
              /\ call'.st.i = call.st.i + 2
              /\ call'.st.fields = call.st.fields
       /\ (Meets(Quote, TRUE) /\ ~QuoteFollows) =>
              /\ ~call'.st.inQuotes
              /\ call'.st.current = call.st.current
              /\ call'.st.fields = call.st.fields
       /\ (PushesField /\ call.fn = "parseLine") =>
              call'.st.fields = Append(call.st.fields, call.st.current)
       /\ (PushesField /\ call.fn # "parseLine") =>
              call'.st.fields =
                  Append(call.st.fields, StripQuotePair(call.st.current))
      ]_vars

\* parseCSVLine has met a doubled quote in the middle of a quoted field and
\* returned the field with one quote in it
C13_Witness ==
    /\ call.fn = "parseCSVLine" /\ call.done
    /\ call.line = <<Quote, "a", Quote, Quote, "a">>
    /\ call.st.fields = <<(<<"a", Quote, "a">>)>>

\* C14: the decoder terminates on every input line and always emits the
\* field in progress when the input ends, in either state (also inside a
\* quote that was never closed): it returns at least one field, and an
\* empty line yields exactly one empty field.
C14_DecoderTerminatesWithLastField ==
    /\ [](IsDecoderCall => <>call.done)
    /\ [](DecoderReturned =>
             /\ Len(call.st.fields) >= 1
             /\ call.line = <<>> => call.st.fields = <<(<<>>)>>)
    /\ [][(DecoderPass /\ call'.done) =>
             /\ call.st.i > Len(call.line)
             /\ Len(call'.st.fields) = Len(call.st.fields) + 1
             /\ call.fn = "parseLine" =>
                    call'.st.fields[Len(call'.st.fields)] = call.st.current
         ]_vars

\* parseLine has reached the end of a line inside a quote that was never
\* closed and returned the field in progress
C14_Witness ==
    /\ call.fn = "parseLine" /\ call.done
    /\ call.line = <<"a", Comma, Quote, "a">>
    /\ call.st.inQuotes
    /\ call.st.fields = <<(<<"a">>), (<<"a">>)>>

----------------------------------------------------------------------------
(* C17, C18                                                                *)

\* DateTime::parse has returned
ParseReturned == call.fn = "DateTime_parse" /\ call.done

\* the hour of the day of the 12-hour hour h with the meridiem mer
Hour24(h, mer) ==
    IF mer[1] \in {"A", "a"}
    THEN (IF h = 12 THEN 0 ELSE h)
    ELSE (IF h = 12 THEN 12 ELSE h + 12)

\* C17: on a successful parse the stored hour is the 24-hour form of the
\* 12-hour hour and meridiem of the text (12 AM gives 0, 12 PM gives 12,
\* every other AM hour is unchanged, every other PM hour is increased by
\* 12); month, day, year, minute and second are stored as read and the
\* value is marked valid.
C17_ParseStores24HourForm ==
    (ParseReturned /\ call.written # <<>>) =>
        /\ call.out.valid
        /\ call.out.hour =
               Hour24(call.written[1].hour, call.written[1].meridiem)
        /\ call.out.month = call.written[1].month
        /\ call.out.day = call.written[1].day
        /\ call.out.year = call.written[1].year
        /\ call.out.minute = call.written[1].minute
        /\ call.out.second = call.written[1].second

\* "12/31/2024 12:59:00 AM" was parsed to the hour 0
C17_Witness ==
    /\ ParseReturned /\ call.written # <<>>
    /\ call.written[1].hour = 12 /\ call.written[1].meridiem = <<"A","M">>
    /\ call.written[1].month = 12 /\ call.written[1].day = 31
    /\ call.written[1].year = 2024 /\ call.written[1].minute = 59
    /\ call.written[1].second = 0
    /\ call.out.valid /\ call.out.hour = 0 /\ call.out.minute = 59

\* C18: parse never raises an error: for the empty string, for every string
\* shorter than 11 characters, and for every string from which the six
\* numeric fields and a meridiem token cannot all be read in the fixed
\* order, it returns the invalid sentinel (valid = false, every field 0).
C18_MalformedTextGivesSentinel ==
    (ParseReturned /\ (Len(call.text) < 11 \/ call.written = <<>>)) =>
        call.out = [year |-> 0, month |-> 0, day |-> 0, hour |-> 0,
                    minute |-> 0, second |-> 0, valid |-> FALSE]

\* the text "01/02/2015 03:04:05 ", which has no meridiem, was parsed
C18_Witness ==
    /\ ParseReturned
    /\ call.text = SubSeq(DateText1, 1, 20)
    /\ ~call.out.valid

----------------------------------------------------------------------------
(* C19, C20                                                                *)

\* x comes before y, both being tuples of six numbers compared from the
\* first on
LexLess(x, y) ==
    \E k \in 1..6 : x[k] < y[k] /\ \A m \in 1..(k - 1) : x[m] = y[m]

\* how many of the statements of the set S hold
HowManyHold(S) == Cardinality({k \in DOMAIN S : S[k]})

\* what C19 asks of the outcome c of comparing a with b, lt being the
\* operator < of the implementation
StrictTotalOrder(a, b, c, lt(_, _)) ==
    /\ (a.valid /\ b.valid) =>
           /\ c.lt = LexLess(Calendar(a), Calendar(b))
           /\ HowManyHold(<<c.lt, c.eq, c.gt>>) = 1
           /\ c.eq = (Calendar(a) = Calendar(b))
           /\ ~lt(a, a)
           /\ \A d \in DateTimes :
                  (d.valid /\ c.lt /\ lt(b, d)) => lt(a, d)
    /\ (~a.valid /\ b.valid) => c.lt
    /\ (a.valid /\ ~b.valid) => ~c.lt

\* C19: the DateTime ordering is a strict total order over valid values
\* (irreflexive, transitive, exactly one of a < b, a == b, b < a) that
\* compares (year, month, day, hour, minute, second) lexicographically, and
\* every invalid value is less than every valid value while no valid value
\* is less than an invalid one.
C19_StrictTotalOrder ==
    /\ (call.fn = "compare" /\ "packed" \in call.ran) =>
           StrictTotalOrder(call.a, call.b, call.packed, DateTime_lt)
    /\ (call.fn = "compare" /\ "byField" \in call.ran) =>
           StrictTotalOrder(call.a, call.b, call.byField, DateTimeF_lt)

\* two valid values were compared of which the first has the smaller month
\* and the larger day, minute and second, and was found to be the smaller
C19_Witness ==
    /\ call.fn = "compare" /\ call.ran = {"packed", "byField"}
    /\ call.a.valid /\ call.b.valid
    /\ call.a.year = call.b.year /\ call.a.month < call.b.month
    /\ call.a.day > call.b.day /\ call.a.minute > call.b.minute
    /\ call.a.second > call.b.second
    /\ call.packed.lt /\ call.byField.lt

\* C20: the packed-key comparison and the field-by-field comparison give
\* the same result of ==, <, <=, > and >= for every pair of DateTime values,
\* so that the two implementations select the same values in every
\* date-range query.
C20_PackedAndFieldwiseAgree ==
    (call.fn = "compare" /\ call.ran = {"packed", "byField"}) =>
        /\ call.packed.eq = call.byField.eq
        /\ call.packed.lt = call.byField.lt
        /\ call.packed.le = call.byField.le
        /\ call.packed.gt = call.byField.gt
        /\ call.packed.ge = call.byField.ge
        /\ \A d \in DateTimes :
               (DateTime_ge(d, call.a) /\ DateTime_le(d, call.b))
               = (DateTimeF_ge(d, call.a) /\ DateTimeF_le(d, call.b))

\* both implementations compared the year 65535 with the year 2015, every
\* other field of the second value being the larger
C20_Witness ==
    /\ call.fn = "compare" /\ call.ran = {"packed", "byField"}
    /\ call.a.valid /\ call.b.valid
    /\ call.a.year = 65535 /\ call.b.year = 2015
    /\ call.a.month = 1 /\ call.b.month = 255
    /\ call.a.hour = 0 /\ call.b.hour = 255
    /\ call.packed.gt /\ call.byField.gt /\ ~call.packed.le

----------------------------------------------------------------------------
(* C21, C22                                                                *)

\* toString() has returned for the value parse returned
ToStringReturned == call.fn = "DateTime_parse" /\ call.done /\ call.shown

\* w is a date of the calendar and a time of the 12-hour clock
ValidWritten(w) ==
    /\ w.month \in 1..12 /\ w.day \in 1..31 /\ w.year \in 0..9999
    /\ w.hour \in 1..12 /\ w.minute \in 0..59 /\ w.second \in 0..59

\* "YYYY-MM-DD HH:MM:SS" of the written time w, the hour in 24-hour form
Canonical(w) ==
    TwoDigits(w.year \div 100) \o TwoDigits(w.year % 100) \o <<"-">>
    \o TwoDigits(w.month) \o <<"-">> \o TwoDigits(w.day) \o <<" ">>
    \o TwoDigits(Hour24(w.hour, w.meridiem)) \o <<":">>
    \o TwoDigits(w.minute) \o <<":">> \o TwoDigits(w.second)

\* C21: for every valid (month, day, year, hour 1..12, minute, second,
\* AM|PM) written in the grammar MM/DD/YYYY HH:MM:SS AM|PM,
\* toString(parse(text)) is the zero-padded string YYYY-MM-DD HH:MM:SS of
\* the same date with the hour in 24-hour form.
C21_ParseThenToStringIsCanonical ==
    (ToStringReturned /\ call.written # <<>>
        /\ ValidWritten(call.written[1])) =>
        call.str = Canonical(call.written[1])

\* "01/01/2010 12:00:59 am" was parsed and shown as "2010-01-01 00:00:59"
C21_Witness ==
    /\ ToStringReturned
    /\ call.text = <<"0","1","/","0","1","/","2","0","1","0"," ",
                     "1","2",":","0","0",":","5","9"," ","a","m">>
    /\ call.str = <<"2","0","1","0","-","0","1","-","0","1"," ",
                    "0","0",":","0","0",":","5","9">>

\* C22: every DateTime that parse returns with valid = true has year in
\* 0..9999, month in 1..12, day in 1..31, hour in 0..23, minute in 0..59 and
\* second in 0..59, for every input string.
C22_ValidDateTimeInRange ==
    (ParseReturned /\ call.out.valid) =>
        /\ call.out.year \in 0..9999
        /\ call.out.month \in 1..12
        /\ call.out.day \in 1..31
        /\ call.out.hour \in 0..23
        /\ call.out.minute \in 0..59
        /\ call.out.second \in 0..59

\* What holds of C22: the fields are in range when the numbers of the text
\* are.
C22_InRangeTextGivesInRangeFields ==
    (ParseReturned /\ call.written # <<>> /\ ValidWritten(call.written[1])) =>
        /\ call.out.valid
        /\ call.out.year \in 0..9999
        /\ call.out.month \in 1..12
        /\ call.out.day \in 1..31
        /\ call.out.hour \in 0..23
        /\ call.out.minute \in 0..59
        /\ call.out.second \in 0..59

----------------------------------------------------------------------------
(* C23, C24                                                                *)

\* fromFields has returned
FromFieldsReturned == call.fn = "fromFields" /\ call.done

\* where the number of the text s starts: after the leading white space
NumberStart(s) ==
    CHOOSE j \in 1..(Len(s) + 1) :
        /\ \A m \in 1..(j - 1) : isspace(s[m])
        /\ j = Len(s) + 1 \/ ~isspace(s[j])

\* s has a sign where its number starts
Signed(s) == NumberStart(s) <= Len(s) /\ s[NumberStart(s)] \in {"+", "-"}

\* the digits of the number of s: the longest run of digits after the
\* white space and the sign
NumberDigits(s) ==
    LET k == IF Signed(s) THEN NumberStart(s) + 1 ELSE NumberStart(s)
        e == CHOOSE j \in k..(Len(s) + 1) :
                 /\ \A m \in k..(j - 1) : isdigit(s[m])
                 /\ j = Len(s) + 1 \/ ~isdigit(s[j])
    IN  SubSeq(s, k, e - 1)

\* s starts with a number in decimal digits
HasNumber(s) == NumberDigits(s) # <<>>

\* the number of s is negative
Negative(s) == Signed(s) /\ s[NumberStart(s)] = "-"

RECURSIVE TimesTenMod(_, _)
\* r * 10 + c modulo 2^(16 * Len(r)), r in 16-bit limbs
TimesTenMod(r, c) ==
    IF r = <<>> THEN <<>>
    ELSE Append(TimesTenMod(SubSeq(r, 1, Len(r) - 1),
                            (r[Len(r)] * 10 + c) \div 65536),
                (r[Len(r)] * 10 + c) % 65536)

RECURSIVE Residue(_, _)
\* the number the digits ds spell, modulo 2^(16 * n), in n limbs
Residue(ds, n) ==
    IF ds = <<>> THEN [k \in 1..n |-> 0]
    ELSE TimesTenMod(Residue(SubSeq(ds, 1, Len(ds) - 1), n),
                     digitval(ds[Len(ds)]))

RECURSIVE PlusOne(_)
\* r + 1 modulo 2^(16 * Len(r))
PlusOne(r) ==
    IF r = <<>> THEN <<>>
    ELSE IF r[Len(r)] = 65535
    THEN Append(PlusOne(SubSeq(r, 1, Len(r) - 1)), 0)
    ELSE [r EXCEPT ![Len(r)] = @ + 1]

\* the number of the text s modulo 2^(16 * n), in n limbs
Wrapped(s, n) ==
    IF Negative(s)
    THEN PlusOne([k \in 1..n |-> 65535 - Residue(NumberDigits(s), n)[k]])
    ELSE Residue(NumberDigits(s), n)

\* the two's complement value of the bit pattern r of one or two limbs
TwosComplement(r) ==
    IF Len(r) = 1
    THEN (IF r[1] >= 32768 THEN r[1] - 65536 ELSE r[1])
    ELSE (IF r[1] >= 32768 THEN (r[1] - 65536) * 65536 + r[2]
          ELSE r[1] * 65536 + r[2])

\* the attribute of the record rec that column c is stored in
ColumnValue(rec, c) ==
    CASE c = 1 -> rec.uniqueKey
      [] c = 10 -> rec.incidentZip
      [] c = 26 -> rec.councilDistrict
      [] c = 28 -> rec.bbl
      [] c = 30 -> rec.xCoordinate
      [] c = 31 -> rec.yCoordinate

\* the default of column c: 0 in the width of the attribute, -1 for the
\* council district
ColumnDefault(c) ==
    CASE c \in {1, 28} -> <<0, 0, 0, 0>>
      [] c = 10 -> <<0, 0>>
      [] c = 26 -> -1
      [] c \in {30, 31} -> 0

\* the number of the text s wrapped to the width of column c
ColumnWrapped(c, s) ==
    CASE c \in {1, 28} -> Wrapped(s, 4)
      [] c = 10 -> Wrapped(s, 2)
      [] c = 26 -> TwosComplement(Wrapped(s, 1))
      [] c \in {30, 31} -> TwosComplement(Wrapped(s, 2))

\* C23: an integer column whose text is empty or has no convertible leading
\* digits is stored as its defined default (0 for unique key, zip, BBL and
\* the state-plane coordinates; -1 for council district) and never causes
\* the row to be rejected or an error to be raised.
C23_NoNumberGivesDefault ==
    (FromFieldsReturned /\ ~HasNumber(call.text)) =>
        /\ call.ok
        /\ \A c \in call.cols : ColumnValue(call.rec, c) = ColumnDefault(c)

\* the row whose six integer columns hold "N/A" was accepted with the
\* council district -1 and the unique key 0
C23_Witness ==
    /\ FromFieldsReturned
    /\ call.text = <<"N", "/", "A">> /\ call.cols = IntegerColumns
    /\ call.ok
    /\ call.rec.councilDistrict = -1
    /\ call.rec.uniqueKey = <<0, 0, 0, 0>>

\* C24: an integer column whose decimal text lies outside the target type's
\* range is stored as that value wrapped to the target width (zip modulo
\* 2^32, unique key and BBL modulo 2^64, state-plane coordinates as 32-bit
\* and council district as 16-bit two's complement), without an error, for
\* every decimal text.
C24_OutOfRangeTextWraps ==
    (FromFieldsReturned /\ HasNumber(call.text)) =>
        /\ call.ok
        /\ \A c \in call.cols :
               ColumnValue(call.rec, c) = ColumnWrapped(c, call.text)

\* What holds of C24: the value is the wrapped one when the text has at
\* most 18 digits, so that its number is in the range of long.
C24_WrapsUpTo18Digits ==
    (FromFieldsReturned /\ HasNumber(call.text)
        /\ Len(NumberDigits(call.text)) <= 18) =>
        /\ call.ok
        /\ \A c \in call.cols :
               ColumnValue(call.rec, c) = ColumnWrapped(c, call.text)

\* the zip "4294967303" (2^32 + 7) was stored as 7
C24_WrappedZip ==
    /\ FromFieldsReturned
    /\ call.text = <<"4","2","9","4","9","6","7","3","0","3">>
    /\ 10 \in call.cols
    /\ call.rec.incidentZip = <<0, 7>>

----------------------------------------------------------------------------
(* C25                                                                     *)

\* the fields have a critical value that cannot be parsed: a unique key
\* without a number, or a created date parse finds no valid date in
UnparseableCritical(fields) ==
    \/ ~HasNumber(fields[1])
    \/ ~DateTime_parse(fields[2]).valid

\* C25: a row with enough columns but unparseable critical values (for
\* example a non-numeric unique key or an unparseable created date) is
\* skipped and counted as a malformed row, not stored.
C25_UnparseableRowSkipped ==
    (variant = "DataStore" /\ last.op = "load" /\ LastFile.open) =>
        \A k \in 1..Len(rowlog) :
            (/\ k <= Len(RowsOf(LastFile))
             /\ Len(parseLine(LastFile.lines[RowsOf(LastFile)[k]])) >= 43
             /\ UnparseableCritical(
                    parseLine(LastFile.lines[RowsOf(LastFile)[k]]))) =>
                /\ ~rowlog[k].ok
                /\ rowlog[k].stored = 0

\* What the loaders do with such a row: it is stored, with the unique key 0
\* and an invalid created date, and is not counted as malformed.
C25_UnparseableRowStored ==
    (variant = "DataStore" /\ last.op = "load" /\ LastFile.open) =>
        \A k \in 1..Len(rowlog) :
            (/\ k <= Len(RowsOf(LastFile))
             /\ Len(parseLine(LastFile.lines[RowsOf(LastFile)[k]])) >= 43
             /\ UnparseableCritical(
                    parseLine(LastFile.lines[RowsOf(LastFile)[k]]))) =>
                /\ rowlog[k].ok
                /\ rowlog[k].stored \in 1..Len(records_)
                /\ ~records_[rowlog[k].stored].createdDate.valid
                   \/ records_[rowlog[k].stored].uniqueKey = <<0, 0, 0, 0>>
                /\ skipped_ = Cardinality({j \in 1..Len(rowlog) :
                                              rowlog[j].nfields < 43})

----------------------------------------------------------------------------
(* C26                                                                     *)

\* readChunk has returned
ReadChunkReturned == call.fn = "readChunk" /\ call.done

\* what readAll leaves in an empty vector, and in the counters, when it is
\* called on a reader that open(path) has just returned from
ReadAllOf(path) == CsvReader_readAll(CsvReader_open(FileAt(path)), <<>>)

\* C26: the streaming read applies the same per-row rules as the
\* accumulating read: for every file, readChunk calls the callback exactly
\* once for each accepted row, in file order, and never for a blank or
\* rejected row, so the sequence of records handed to the callback equals
\* the sequence readAll would store, with the same malformed-row count.
C26_ReadChunkHandsWhatReadAllStores ==
    ReadChunkReturned =>
        /\ call.acc.handed = AcceptedRows(FileAt(call.path), parseLine)
        /\ call.acc.handed = ReadAllOf(call.path).out
        /\ call.acc.skipped = ReadAllOf(call.path).skipped
        /\ call.acc.total = ReadAllOf(call.path).total

\* readChunk went through a file of a short row followed by an accepted
\* row: one call of the callback, one malformed row
C26_Witness ==
    /\ ReadChunkReturned
    /\ call.path = <<"rows", "Short", "A">>
    /\ Len(call.acc.handed) = 1
    /\ call.acc.skipped = 1
    /\ call.ret = 2

----------------------------------------------------------------------------
(* C27                                                                     *)

\* the query whose answer the caller kept has returned again, and no load
\* ran since the caller kept the answer
RepeatedQuery ==
    /\ call.fn = "kept"
    /\ last.op = call.op /\ last.arg = call.arg
    /\ loads = call.loads

----------------------------------------------------------------------------
(* C28                                                                     *)

\* readAll has returned
ReadAllReturned == call.fn = "readAll" /\ call.done

\* the fields of the k-th row of the file at the path
RowFields(path, k) ==
    parseLine(FileAt(path).lines[RowsOf(FileAt(path))[k]])

\* C28: CsvReader::readAll reuses one ServiceRequest object for all rows,
\* yet every stored record depends only on its own row: after an accepted
\* row, and also after a rejected row followed by an accepted one, no
\* attribute of the stored record carries a value from an earlier row.
C28_StoredRecordFromOwnRowOnly ==
    ReadAllReturned =>
        /\ Len(call.log) = Len(RowsOf(FileAt(call.path)))
        /\ \A k \in 1..Len(call.log) :
               call.log[k].ok =>
                   /\ call.log[k].stored \in 1..Len(call.out)
                   /\ call.out[call.log[k].stored] =
                          fromFields(ServiceRequestDefault,
                                     RowFields(call.path, k)).rec
                   /\ \A a \in DOMAIN ServiceRequestDefault :
                          call.out[call.log[k].stored][a] =
                              AssignFields(RowFields(call.path, k))[a]

\* the row A, a short row, then the row C, whose columns are empty: the
\* record of C was made in the object that held A and has none of A's
\* values
C28_Witness ==
    /\ ReadAllReturned
    /\ call.path = <<"rows", "A", "Short", "C">>
    /\ Len(call.out) = 2 /\ call.skipped = 1
    /\ call.log[1].ok /\ ~call.log[2].ok /\ call.log[3].ok
    /\ call.log[3].changed
    /\ call.out[1].incidentZip = <<0, 10001>>
    /\ call.out[2].incidentZip = <<0, 0>>
    /\ call.out[2].borough = <<>>

----------------------------------------------------------------------------
(* C29                                                                     *)

\* the positions of the records of recs whose created date is valid and not
\* later than the valid date end
CreatedUpTo(recs, end) ==
    InOrder({i \in 1..Len(recs) :
                /\ recs[i].createdDate.valid
                /\ \/ Calendar(recs[i].createdDate) = Calendar(end)
                   \/ LexLess(Calendar(recs[i].createdDate), Calendar(end))})

\* C29: in DataStore::filterByCreatedDateRange and
\* NYC311Analyzer::filterByDateRange an invalid start bound acts as minus
\* infinity (every record with a valid createdDate <= end matches) and an
\* invalid end bound yields an empty result for every store, whatever the
\* start bound is.
C29_InvalidBoundsOfDateRange ==
    /\ (variant = "DataStore" /\ last.op = "filterByCreatedDateRange") =>
           /\ ~last.arg[2].valid => result.ptrs = <<>>
           /\ (~last.arg[1].valid /\ last.arg[2].valid) =>
                  result.ptrs =
                      [k \in 1..Len(CreatedUpTo(records_, last.arg[2])) |->
                          <<epoch, CreatedUpTo(records_, last.arg[2])[k]>>]
    /\ (variant = "NYC311Analyzer" /\ last.op = "filterByDateRange") =>
           /\ ~last.arg[2].valid => results = <<>>
           /\ (~last.arg[1].valid /\ last.arg[2].valid) =>
                  results =
                      [k \in 1..Len(CreatedUpTo(records, last.arg[2])) |->
                          records[CreatedUpTo(records, last.arg[2])[k]]]

\* with an invalid start and the end 12/31/2014 12:00:00 AM, the store of
\* the row A (created in 2015) and the row B (created at the end bound)
\* gave B alone
C29_Witness ==
    /\ variant = "DataStore" /\ last.op = "filterByCreatedDateRange"
    /\ ~last.arg[1].valid
    /\ last.arg[2] = DateTime_parse(DateText2)
    /\ Len(records_) = 2
    /\ records_[1].createdDate = DateTime_parse(DateText1)
    /\ records_[2].createdDate = DateTime_parse(DateText2)
    /\ result.ptrs = <<<<epoch, 2>>>>

\* with an invalid end, the store of the rows A and B gave nothing
C29_InvalidEndWitness ==
    /\ variant = "NYC311Analyzer" /\ last.op = "filterByDateRange"
    /\ ~last.arg[2].valid /\ last.arg[1].valid
    /\ Len(records) = 2
    /\ records[1].createdDate.valid /\ records[2].createdDate.valid
    /\ results = <<>>

----------------------------------------------------------------------------
(* C30                                                                     *)

\* d is a value parse or the default constructor can produce: parse gives
\* the default value when it fails and a valid value otherwise, with every
\* field anywhere in the range of its type
Producible(d) == d.valid \/ d = DateTimeDefault

\* what C30 says of the outcome c of the five operators on a and b
EqualIffNeitherLess(a, b, c) ==
    /\ c.eq <=> (~c.lt /\ ~c.gt)
    /\ (~a.valid /\ ~b.valid) => (c.eq /\ ~c.lt /\ ~c.gt)
    /\ (a.valid # b.valid) => ~c.eq

\* C30: for any two DateTime values produced by parse or by default
\* construction, a == b holds exactly when neither a < b nor b < a; in
\* particular any two invalid values are equal to each other, neither is
\* less than the other, and an invalid value is never equal to a valid one.
C30_EqualIffNeitherLess ==
    (call.fn = "compare" /\ Producible(call.a) /\ Producible(call.b)) =>
        /\ "packed" \in call.ran =>
               EqualIffNeitherLess(call.a, call.b, call.packed)
        /\ "byField" \in call.ran =>
               EqualIffNeitherLess(call.a, call.b, call.byField)

\* two default-constructed values were compared by both implementations
\* and found equal, neither less than the other
C30_Witness ==
    /\ call.fn = "compare" /\ call.ran = {"packed", "byField"}
    /\ call.a = DateTimeDefault /\ call.b = DateTimeDefault
    /\ call.packed.eq /\ ~call.packed.lt /\ ~call.packed.gt
    /\ call.byField.eq /\ ~call.byField.lt

\* an invalid value whose fields are not all 0, which neither parse nor the
\* default constructor produces, is unequal to the default value although
\* neither is less than the other
C30_FieldsOfInvalidValuesCompared ==
    /\ call.fn = "compare" /\ "packed" \in call.ran
    /\ ~call.a.valid /\ ~call.b.valid /\ call.a # call.b
    /\ ~call.packed.eq /\ ~call.packed.lt /\ ~call.packed.gt

====
